---- MODULE Spec2Model ----
(***************************************************************************)
(* Signal-to-execution pipeline of agentic-trader v4.6: the order          *)
(* executors of the FX, XAU and IDX agents (guardrails, retry protocol,    *)
(* trust updates) and their trust stores.                                  *)
(*                                                                         *)
(* Conventions.                                                            *)
(*  - Python dicts are functions whose DOMAIN is the set of keys present.  *)
(*  - Trust and confidence are fixed-point numbers in units of 1/1000      *)
(*    (One = 1.0); the only non-exact operation is the exponential decay   *)
(*    factor, see fx_decay.                                                *)
(*  - Time is in whole seconds since the epoch.                            *)
(*  - module is the agent the process runs ("fx", "xau" or "idx"); the     *)
(*    executors share the state layout, their differences are in the       *)
(*    operators.                                                           *)
(***************************************************************************)
EXTENDS Integers, Sequences, FiniteSets, TLC

VARIABLES
    module,             \* which agent this process is: "fx" | "xau" | "idx"
    env,                \* configuration read from ENV (fixed after start-up)
    now,                \* time.time()
    positions,          \* the gateway's open positions: symbol -> count
    _last_trade_time,   \* executor dict: symbol -> time of last fill
    _last_direction,    \* executor dict: symbol -> side of last fill
    _TRUST,             \* trust store dict: symbol -> trust (1/1000)
    _LAST,              \* trust store dict: symbol -> time of last update
    lastCall,           \* observation of the last guardrail check or execute_trade call
    lastOk,             \* ghost: symbol -> time the last ok=true call returned
    calls,              \* number of execute_trade calls so far
    trustOps,           \* number of direct trust store operations so far
    elapses,            \* number of long idle periods so far
    calc                \* a call of a pure function: its arguments, then its result

vars == << module, env, now, positions, _last_trade_time, _last_direction,
           _TRUST, _LAST, lastCall, lastOk, calls, trustOps, elapses, calc >>

-----------------------------------------------------------------------------
(* Bounds of the model *)

T0 == 2000000           \* time.time() when the process starts
MaxElapsed == 1         \* seconds the executor run may last (1 s ticks)
MaxOpen == 2            \* configured AGENT_MAX_OPEN
MaxPerSymbol == 1       \* configured AGENT_MAX_PER_SYMBOL
MaxCooldown == 1        \* configured cooldown, seconds
MaxPositions == 1       \* most positions other traders open on the account
MaxCalls == 1           \* execute_trade calls per run
MaxTrustOps == 11       \* trust store operations per run (trust-store runs)
MaxElapses == 1         \* long idle periods per run (trust-store runs)
MaxHalvings == 10       \* half-lives after which the decayed offset is < 1/2000

-----------------------------------------------------------------------------
(* Domains *)

Modules == {"fx", "xau", "idx"}
AgentSymbols == {"EURUSD", "USDJPY"}    \* symbols the agent manages
OtherSymbols == {"BTCUSD"}              \* traded by someone else on the account
AllSymbols == AgentSymbols \cup OtherSymbols
Sides == {"LONG", "SHORT"}

(* dict.get(k, default), d[k] = v *)
Get(d, k, default) == IF k \in DOMAIN d THEN d[k] ELSE default
Put(d, k, v) == [x \in (DOMAIN d) \cup {k} |-> IF x = k THEN v ELSE d[x]]
EmptyDict == [x \in {} |-> 0]

Min(a, b) == IF a <= b THEN a ELSE b
Max(a, b) == IF a >= b THEN a ELSE b

RECURSIVE Pow2(_)
Pow2(n) == IF n <= 0 THEN 1 ELSE 2 * Pow2(n - 1)

(* n / d rounded to the nearest integer, halves away from zero (d > 0) *)
RoundDiv(n, d) ==
    IF n >= 0 THEN (2 * n + d) \div (2 * d)
    ELSE 0 - ((2 * (0 - n) + d) \div (2 * d))

-----------------------------------------------------------------------------
(* Trust store, FX: fx_v46/trust/trust_engine_v46.py *)

One == 1000             \* 1.0
Neutral == 500          \* 0.50, the defaultdict's neutral start
StepUp == 50            \* step_up = 0.05
StepDn == 80            \* step_dn = 0.08
HalfLifeMinutes == 180  \* half_life_minutes default

(* _decay: 0.5 + (trust - 0.5) * 0.5 ** (seconds / half_life_s).  The factor *)
(* is exact at whole half-lives and linearly interpolated between them      *)
(* (1 at 0, 1/2 at 1), rounded to 1/1000; it is always in (0, 1].          *)
fx_decay(trust, seconds, half_life_s) ==
    IF half_life_s <= 0 \/ seconds <= 0 THEN trust
    ELSE LET whole == seconds \div half_life_s
             frac == seconds % half_life_s
         IN  IF whole >= MaxHalvings THEN Neutral
             ELSE Neutral + RoundDiv((trust - Neutral) * (2 * half_life_s - frac),
                                     Pow2(whole) * 2 * half_life_s)

(* get_trust_level: reading the defaultdicts creates the entries; the stored *)
(* value is the decayed one, the returned value is clamped.                 *)
fx_get_trust_level(T, L, t, symbol) ==
    LET delta == t - Get(L, symbol, 0)
        decayed == fx_decay(Get(T, symbol, Neutral), delta, HalfLifeMinutes * 60)
    IN  [ T |-> Put(T, symbol, decayed),
          L |-> Put(L, symbol, t),
          value |-> Max(0, Min(One, decayed)) ]

fx_update_trust_unclamped(T, L, t, symbol, won) ==
    LET r == fx_get_trust_level(T, L, t, symbol)
        v == r.value + (IF won THEN StepUp ELSE 0 - StepDn)
    IN  [ T |-> Put(r.T, symbol, v), L |-> r.L ]

(* update_trust moving every entry of the store instead of the symbol's *)
fx_update_trust_all(T, L, t, symbol, won) ==
    LET r == fx_get_trust_level(T, L, t, symbol)
        step == IF won THEN StepUp ELSE 0 - StepDn
    IN  [ T |-> [ s \in DOMAIN r.T |-> Max(0, Min(One, r.T[s] + step)) ], L |-> r.L ]

fx_update_trust(T, L, t, symbol, won) ==
    LET r == fx_get_trust_level(T, L, t, symbol)
        v == r.value + (IF won THEN StepUp ELSE 0 - StepDn)
    IN  [ T |-> Put(r.T, symbol, Max(0, Min(One, v))), L |-> r.L ]

-----------------------------------------------------------------------------
(* Trust store, XAU: xau_v46/trust/xau_trust_engine_v46.py *)

TRUST_DECAY_BARS == 1200
TRUST_DECAY_STEP == 10      \* 0.01
TRUST_INC_SUCCESS == 50     \* 0.05
TRUST_DECAY_FAIL == 100     \* 0.10
TRUST_MIN == 400            \* 0.40
TRUST_MAX == 950            \* 0.95

xau_update_trust(T, L, t, symbol, success) ==
    LET current == Get(T, symbol, Neutral)
        moved == IF success THEN current + TRUST_INC_SUCCESS
                 ELSE current - TRUST_DECAY_FAIL
    IN  [ T |-> Put(T, symbol, Max(TRUST_MIN, Min(moved, TRUST_MAX))),
          L |-> Put(L, symbol, t) ]

xau_horizon_sec == TRUST_DECAY_BARS * 15 * 60

xau_decay(T, L, t, symbol) ==
    IF t - Get(L, symbol, 0) > xau_horizon_sec
    THEN [ T |-> Put(T, symbol, Max(TRUST_MIN, Get(T, symbol, Neutral) - TRUST_DECAY_STEP)),
           L |-> Put(L, symbol, t) ]
    ELSE [ T |-> T, L |-> L ]

xau_get_trust_score(T, L, t, symbol) ==
    LET r == xau_decay(T, L, t, symbol)
    IN  [ T |-> r.T, L |-> r.L, value |-> Get(r.T, symbol, Neutral) ]

-----------------------------------------------------------------------------
(* Trust store, IDX: idx_v46/trust/idx_trust_engine_v46.py.  _TRUST[symbol] *)
(* is a record; confidence and ATR% are in units of 1/1000 as well.         *)

IDX_TRUST_SESSION_RESET_FACTOR == 200   \* 0.2
IDX_TRUST_BASE_GROWTH == 20             \* 0.02
IDX_TRUST_CONF_GAIN == 30               \* 0.03
IDX_TRUST_DECAY_BASE == 5               \* 0.005
IDX_TRUST_DECAY_VOL_MULT == 50          \* 50.0
KL_UTC_OFFSET_SEC == 28800              \* Asia/Kuala_Lumpur is UTC+8
DAY_SEC == 86400

(* _session_key: the calendar day in Kuala Lumpur *)
_session_key(t) == (t + KL_UTC_OFFSET_SEC) \div DAY_SEC

(* _rec: the record of the symbol, created at trust 0.0 when absent *)
_rec(T, t, symbol) ==
    IF symbol \in DOMAIN T THEN T
    ELSE Put(T, symbol, [ trust |-> 0, last_side |-> "", last_update |-> t,
                          session_key |-> _session_key(t), streak |-> 0 ])

idx_get_trust(T, L, t, symbol) ==
    LET T1 == _rec(T, t, symbol)
    IN  [ T |-> T1, L |-> L, value |-> T1[symbol].trust ]

idx_update_trust(T, L, t, symbol, side, conf_base, atr_pct) ==
    LET T1 == _rec(T, t, symbol)
        r == T1[symbol]
        sk == _session_key(t)
        kept == IF r.session_key # sk
                THEN Max(0, Min(One, RoundDiv(r.trust * IDX_TRUST_SESSION_RESET_FACTOR, One)))
                ELSE r.trust
        same == side # "" /\ r.last_side = side
        growth == IDX_TRUST_BASE_GROWTH
                  + RoundDiv(IDX_TRUST_CONF_GAIN * Max(0, Min(One, conf_base)), One)
        decay == RoundDiv(IDX_TRUST_DECAY_BASE
                          * (One + Max(0, atr_pct) * IDX_TRUST_DECAY_VOL_MULT), One)
        new_trust == Max(0, Min(One, kept + growth - decay))
    IN  [ T |-> Put(T1, symbol,
                    [ trust |-> new_trust,
                      last_side |-> IF same THEN r.last_side ELSE side,
                      last_update |-> t, session_key |-> sk,
                      streak |-> IF same THEN r.streak + 1 ELSE 1 ]),
          L |-> L, value |-> new_trust ]

-----------------------------------------------------------------------------
(* The win/loss trust store of the running FX or XAU agent *)
update_trust(m, T, L, t, symbol, won) ==
    IF m = "fx" THEN fx_update_trust(T, L, t, symbol, won)
    ELSE xau_update_trust(T, L, t, symbol, won)

get_trust(m, T, L, t, symbol) ==
    IF m = "fx" THEN fx_get_trust_level(T, L, t, symbol)
    ELSE IF m = "xau" THEN xau_get_trust_score(T, L, t, symbol)
    ELSE idx_get_trust(T, L, t, symbol)

(* the trust value a store holds for a symbol *)
stored_trust(m, T, symbol) == IF m = "idx" THEN T[symbol].trust ELSE T[symbol]

-----------------------------------------------------------------------------
(* Guardrails: fx_executor_v46._can_open_trade, xau_executor_v46._guardrail_check *)

RECURSIVE CountIn(_, _)
CountIn(pos, S) ==
    IF S = {} THEN 0
    ELSE LET s == CHOOSE x \in S : TRUE IN pos[s] + CountIn(pos, S \ {s})

NoPositions == [s \in AllSymbols |-> 0]
ReadStatuses == {"list", "none", "raise"}

(* mt5.positions_get() or []; an exception is caught and read as [] *)
positions_get(status, pos) == IF status = "list" THEN pos ELSE NoPositions

(* the symbols whose positions count: FX keeps all when agent_symbols is empty *)
filtered(m, cfg) ==
    IF m = "fx" /\ cfg.agent_symbols = {} THEN AllSymbols
    ELSE cfg.agent_symbols \cap AllSymbols

(* The sequence of checks; the value names the branch that returns False    *)
(* (its [BLOCKED] log line), "none" when the function returns True.         *)
guard_verdict_symbol_first(cfg, total_active, per_symbol, since_last, last_dir, side) ==
    IF per_symbol >= cfg.agent_max_per_symbol THEN "symbol_cap"
    ELSE IF total_active >= cfg.agent_max_open THEN "global_cap"
    ELSE IF since_last < cfg.cooldown_sec THEN "cooldown"
    ELSE IF cfg.block_same_direction /\ last_dir = side THEN "same_direction"
    ELSE "none"

guard_verdict_no_direction(cfg, total_active, per_symbol, since_last, last_dir, side) ==
    IF total_active >= cfg.agent_max_open THEN "global_cap"
    ELSE IF per_symbol >= cfg.agent_max_per_symbol THEN "symbol_cap"
    ELSE IF since_last < cfg.cooldown_sec THEN "cooldown"
    ELSE "none"

guard_verdict(cfg, total_active, per_symbol, since_last, last_dir, side) ==
    IF total_active >= cfg.agent_max_open THEN "global_cap"
    ELSE IF per_symbol >= cfg.agent_max_per_symbol THEN "symbol_cap"
    ELSE IF since_last < cfg.cooldown_sec THEN "cooldown"
    ELSE IF cfg.block_same_direction /\ last_dir = side THEN "same_direction"
    ELSE "none"

(* The two dict reads of the guardrail: .get() leaves the dict alone *)
dict_read_inserting(d, k, default) == IF k \in DOMAIN d THEN d ELSE Put(d, k, default)

dict_read(d, k, default) == d

(* Returns the verdict and the two executor dicts as the call leaves them *)
_can_open_trade(m, cfg, status, pos, ltt, ldir, t, symbol, side) ==
    LET seen == positions_get(status, pos)
        kept == filtered(m, cfg)
        total_active == CountIn(seen, kept)
        per_symbol == IF symbol \in kept THEN seen[symbol] ELSE 0
        verdict == guard_verdict(cfg, total_active, per_symbol,
                                 t - Get(ltt, symbol, 0), Get(ldir, symbol, ""), side)
    IN  [ allowed |-> verdict = "none", reason |-> verdict,
          last_trade_time |-> dict_read(ltt, symbol, 0),
          last_direction |-> dict_read(ldir, symbol, "") ]

-----------------------------------------------------------------------------
(* Order submission: _send_order of fx_executor_v46 and xau_executor_v46 *)

Answers == {"done", "reject", "none", "raise"}

(* the gateway's i-th answer of the call; past the script it stays silent *)
Answer(resp, i) == IF i <= Len(resp) THEN resp[i] ELSE "none"

(* Each returns what the caller sees (res) and the index of the next answer. *)
(* FX: None is returned at once; a non-DONE retcode is resent with FOK.      *)
fx_send_order(resp, i) ==
    IF Answer(resp, i) = "reject"
    THEN [ res |-> Answer(resp, i + 1), next |-> i + 2 ]
    ELSE [ res |-> Answer(resp, i), next |-> i + 1 ]

(* XAU: anything but DONE (None too) is resent with FOK *)
xau_send_order(resp, i) ==
    IF Answer(resp, i) \in {"done", "raise"}
    THEN [ res |-> Answer(resp, i), next |-> i + 1 ]
    ELSE [ res |-> Answer(resp, i + 1), next |-> i + 2 ]

_send_order(m, resp, i) ==
    IF m = "fx" THEN fx_send_order(resp, i) ELSE xau_send_order(resp, i)

-----------------------------------------------------------------------------
(* execute_trade: fx_executor_v46.py 170-255, xau_executor_v46.py 113-179   *)
(*                                                                         *)
(* What the gateway does during one call is a scenario: the point at which *)
(* a gateway call other than order_send fails (fault), and the answers to  *)
(* the successive order_send calls (resp).                                 *)

(* exceptions raised before the try block: they leave execute_trade *)
PropagatingFaults(m) ==
    {"info_raise",              \* mt5.symbol_info(symbol) raises (fx 184, xau 123)
     "select_raise"}            \* mt5.symbol_select raises (fx 186, xau 124)
    \cup (IF m = "fx" THEN {"normvol_raise"} ELSE {})  \* _normalize_volume, fx 194

(* exceptions raised inside the try block before the first order_send *)
CaughtFaults(m) ==
    {"tick_none", "tick_raise",             \* _build_prices: symbol_info_tick
     "build_info_none", "build_info_raise"} \* _build_prices: symbol_info
    \cup (IF m = "fx" THEN {"minstop_raise"} ELSE {})  \* _min_stop_distance_ok, fx 203

(* two more: "select_false", symbol_info is None and symbol_select returns  *)
(* False; "retry_info", the symbol info used to round the widened stops is  *)
(* None or its read raises (fx 229, xau 160-161), after a failed first      *)
(* attempt.                                                                 *)

(* What a call did: the result dict it returned (ok, blocked, reason,        *)
(* attempts, error: absent keys read as False, "none", 0), whether an       *)
(* exception was met ("caught" by the executor or "propagated" to the       *)
(* caller, then nothing is returned), the number of order_send calls made,  *)
(* which of them the gateway accepted (0: none), the trust updates applied, *)
(* and the four dicts as the call leaves them.                              *)
Outcome(exception, ok, blocked, reason, attempts, error, sends, accepted, updates, T, L, ltt, ldir) ==
    [ exception |-> exception, ok |-> ok, blocked |-> blocked, reason |-> reason,
      attempts |-> attempts, error |-> error, sends |-> sends,
      accepted |-> accepted, trust_updates |-> updates,
      T |-> T, L |-> L, last_trade_time |-> ltt, last_direction |-> ldir ]

(* fx 180-181 ("guardrail"), xau 120 ("guardrail_limit") *)
blocked_result(m, T, L, ltt, ldir) ==
    Outcome("none", FALSE, TRUE, IF m = "fx" THEN "guardrail" ELSE "guardrail_limit",
            0, FALSE, 0, 0, << >>, T, L, ltt, ldir)

(* fx 216-222 and 237-243, xau 145-150 and 165-170; the gateway accepted   *)
(* the last order sent                                                      *)
success_handling_no_stamp(m, T, L, ltt, ldir, t, symbol, side, attempts, sends) ==
    LET u == update_trust(m, T, L, t, symbol, TRUE)
    IN  Outcome("none", TRUE, FALSE, "none", attempts, FALSE, sends, sends, << "win" >>,
                u.T, u.L, ltt, Put(ldir, symbol, side))

success_handling(m, T, L, ltt, ldir, t, symbol, side, attempts, sends) ==
    LET u == update_trust(m, T, L, t, symbol, TRUE)
    IN  Outcome("none", TRUE, FALSE, "none", attempts, FALSE, sends, sends, << "win" >>,
                u.T, u.L, Put(ltt, symbol, t), Put(ldir, symbol, side))

(* fx 245-249, xau 172-174 *)
failure_handling_stamping(m, T, L, ltt, ldir, t, symbol, sends) ==
    LET u == update_trust(m, T, L, t, symbol, FALSE)
    IN  Outcome("none", FALSE, FALSE, "execution_failed", 0, FALSE, sends, 0,
                << "loss" >>, u.T, u.L, Put(ltt, symbol, t), ldir)

failure_handling(m, T, L, ltt, ldir, t, symbol, sends) ==
    LET u == update_trust(m, T, L, t, symbol, FALSE)
    IN  Outcome("none", FALSE, FALSE, "execution_failed", 0, FALSE, sends, 0,
                << "loss" >>, u.T, u.L, ltt, ldir)

(* fx 251-255, xau 176-179 *)
exception_handling(m, T, L, ltt, ldir, t, symbol, sends) ==
    LET u == update_trust(m, T, L, t, symbol, FALSE)
    IN  Outcome("caught", FALSE, FALSE, "none", 0, TRUE, sends, 0, << "loss" >>,
                u.T, u.L, ltt, ldir)

(* an exception that leaves execute_trade: nothing is returned *)
propagated(updates, T, L, ltt, ldir) ==
    Outcome("propagated", FALSE, FALSE, "none", 0, FALSE, 0, 0, updates, T, L, ltt, ldir)

(* fx 189, xau 125 *)
select_failed_result(T, L, ltt, ldir) ==
    Outcome("none", FALSE, FALSE, "symbol_select_failed", 0, FALSE, 0, 0, << >>,
            T, L, ltt, ldir)

(* fx 215-249, xau 142-174: first attempt, widened retry, failure *)
send_phase(m, T, L, ltt, ldir, t, symbol, side, scen) ==
    LET a1 == _send_order(m, scen.resp, 1)
        a2 == _send_order(m, scen.resp, a1.next)
    IN  IF a1.res = "raise"
        THEN exception_handling(m, T, L, ltt, ldir, t, symbol, a1.next - 1)
        ELSE IF a1.res = "done"
        THEN success_handling(m, T, L, ltt, ldir, t, symbol, side, 1, a1.next - 1)
        ELSE IF scen.fault = "retry_info"
        THEN exception_handling(m, T, L, ltt, ldir, t, symbol, a1.next - 1)
        ELSE IF a2.res = "raise"
        THEN exception_handling(m, T, L, ltt, ldir, t, symbol, a2.next - 1)
        ELSE IF a2.res = "done"
        THEN success_handling(m, T, L, ltt, ldir, t, symbol, side, 2, a2.next - 1)
        ELSE failure_handling(m, T, L, ltt, ldir, t, symbol, a2.next - 1)

execute_trade(m, cfg, status, pos, T, L, ltt, ldir, t, symbol, side, scen) ==
    LET g == _can_open_trade(m, cfg, status, pos, ltt, ldir, t, symbol, side)
        ltt1 == g.last_trade_time
        ldir1 == g.last_direction
    IN  IF ~g.allowed THEN blocked_result(m, T, L, ltt1, ldir1)
        ELSE IF scen.fault \in PropagatingFaults(m)
        THEN propagated(<< >>, T, L, ltt1, ldir1)
        ELSE IF scen.fault = "select_false" THEN select_failed_result(T, L, ltt1, ldir1)
        ELSE IF scen.fault \in CaughtFaults(m)
        THEN exception_handling(m, T, L, ltt1, ldir1, t, symbol, 0)
        ELSE send_phase(m, T, L, ltt1, ldir1, t, symbol, side, scen)

-----------------------------------------------------------------------------
(* execute_trade of idx_v46/idx_executor_v46.py 59-188.  inp is what the    *)
(* caller passes: the decision's accepted flag and raw confidence, and the  *)
(* features' ATR%.  The guardrail is inline and counts every position of    *)
(* the account; nothing is caught but the order_send call.                  *)

IdxConfs == {0, One}
IdxAtrs == {0, 100}
(* the calls of a run pass the strongest signal; the trust store's own runs *)
(* vary confidence and ATR%                                                 *)
IdxInputs == [ accepted : BOOLEAN, confidence_raw : {One}, atr_pct : {0} ]

IdxFaults ==
    {"info_raise",      \* mt5.symbol_info(symbol) raises (92)
     "normvol_raise",   \* compute_lot / _adjust_volume raises (123-124)
     "info_none",       \* symbol_info is None or not tradeable (142)
     "tick_raise",      \* mt5.symbol_info_tick raises (147)
     "tick_none",       \* no tick (148)
     "init_raise",      \* ensure_mt5_initialized raises in _send_order (41)
     "none"}

idx_result(reason, updates, T, L, ltt, ldir) ==
    Outcome("none", FALSE, FALSE, reason, 0, FALSE, 0, 0, updates, T, L, ltt, ldir)

(* _send_order 39-53 and the return of its result, 189-197 *)
idx_send_order(answer, updates, T, L, ltt, ldir) ==
    IF answer = "done"
    THEN Outcome("none", TRUE, FALSE, "none", 0, FALSE, 1, 1, updates, T, L, ltt, ldir)
    ELSE IF answer = "reject"
    THEN Outcome("none", FALSE, FALSE, "execution_failed", 0, FALSE, 1, 0, updates,
                 T, L, ltt, ldir)
    ELSE Outcome("caught", FALSE, FALSE, "exception", 0, FALSE, 1, 0, updates,
                 T, L, ltt, ldir)

idx_execute_trade(cfg, status, pos, T, L, ltt, ldir, t, symbol, side, inp, scen) ==
    IF ~inp.accepted THEN idx_result("not_accepted", << >>, T, L, ltt, ldir)
    ELSE
    LET u == idx_update_trust(idx_get_trust(T, L, t, symbol).T, L, t, symbol, side,
                              inp.confidence_raw, inp.atr_pct)
        done == << "confidence" >>
        seen == positions_get(status, pos)
        total_orders == CountIn(seen, AllSymbols)
        per_symbol == seen[symbol]
    IN  IF scen.fault \in {"info_raise", "normvol_raise"} \/ status = "raise"
        THEN propagated(done, u.T, u.L, ltt, ldir)
        ELSE IF total_orders >= cfg.agent_max_open \/ per_symbol >= cfg.agent_max_per_symbol
        THEN idx_result("guardrail_blocked", done, u.T, u.L, ltt, ldir)
        ELSE IF scen.fault = "info_none"
        THEN idx_result("not_tradeable", done, u.T, u.L, ltt, ldir)
        ELSE IF scen.fault = "tick_raise" THEN propagated(done, u.T, u.L, ltt, ldir)
        ELSE IF scen.fault = "tick_none"
        THEN idx_result("no_tick_data", done, u.T, u.L, ltt, ldir)
        ELSE IF scen.fault = "init_raise" THEN propagated(done, u.T, u.L, ltt, ldir)
        ELSE idx_send_order(Answer(scen.resp, 1), done, u.T, u.L, ltt, ldir)

-----------------------------------------------------------------------------
(* The gateway's behaviours during one call *)

MaxSends == 4           \* longest script of order_send answers

(* The gateway answers every order_send of a call but the last the same way *)
(* (it keeps rejecting, or keeps silent); the last answer is free.          *)
Scripts ==
    { r \in UNION { [1..n -> Answers] : n \in 1..MaxSends } :
        \A i, j \in 1..(Len(r) - 1) : r[i] = r[j] }

sends_of(m, scen) ==
    send_phase(m, EmptyDict, EmptyDict, EmptyDict, EmptyDict, T0,
               "EURUSD", "LONG", scen).sends

(* scripts are kept when the call consumes exactly the answers they hold *)
Scenarios(m) ==
    { [fault |-> f, resp |-> << >>] :
        f \in PropagatingFaults(m) \cup CaughtFaults(m) \cup {"select_false"} }
    \cup { sc \in [fault : {"none"}, resp : Scripts] : sends_of(m, sc) = Len(sc.resp) }
    \cup { sc \in [fault : {"retry_info"}, resp : Scripts] :
             /\ _send_order(m, sc.resp, 1).res \notin {"done", "raise"}
             /\ sends_of(m, sc) = Len(sc.resp) }

FxScenarios == Scenarios("fx")
XauScenarios == Scenarios("xau")
IdxScenarios ==
    { [fault |-> f, resp |-> << >>] : f \in IdxFaults \ {"none"} }
    \cup { [fault |-> "none", resp |-> << a >>] : a \in Answers }
Quiet == [fault |-> "none", resp |-> << "done" >>]

-----------------------------------------------------------------------------
(* State machine *)

NoCall == [ kind |-> "none" ]
NoCalc == [ kind |-> "none" ]

(* the process after import, before any call *)
Started ==
    /\ module \in Modules
    /\ env \in [ agent_symbols : {AgentSymbols},
                 agent_max_open : {MaxOpen},
                 agent_max_per_symbol : {MaxPerSymbol},
                 cooldown_sec : {MaxCooldown},
                 block_same_direction : IF module = "idx" THEN {FALSE} ELSE BOOLEAN ]
    /\ now = T0
    /\ positions = NoPositions
    /\ _last_trade_time = EmptyDict
    /\ _last_direction = EmptyDict
    /\ _TRUST = EmptyDict
    /\ _LAST = EmptyDict
    /\ lastCall = NoCall
    /\ lastOk = EmptyDict
    /\ calls = 0
    /\ trustOps = 0
    /\ elapses = 0

Init == Started /\ calc = NoCalc

(* a second passes *)
Tick ==
    /\ lastCall.kind = "none"
    /\ now < T0 + MaxElapsed
    /\ now' = now + 1
    /\ UNCHANGED << calc, module, env, positions, _last_trade_time, _last_direction,
                    _TRUST, _LAST, lastCall, lastOk, calls, trustOps, elapses >>

(* the gateway owns the positions: another trader opens one *)
GatewayOpen ==
    \E s \in AllSymbols :
        /\ lastCall.kind = "none"
        /\ CountIn(positions, AllSymbols) < MaxPositions
        /\ positions' = [positions EXCEPT ![s] = @ + 1]
        /\ UNCHANGED << calc, module, env, now, _last_trade_time, _last_direction,
                        _TRUST, _LAST, lastCall, lastOk, calls, trustOps, elapses >>

(* a stop-loss or take-profit closes a position *)
GatewayClose ==
    \E s \in AllSymbols :
        /\ lastCall.kind = "none"
        /\ positions[s] > 0
        /\ positions' = [positions EXCEPT ![s] = @ - 1]
        /\ UNCHANGED << calc, module, env, now, _last_trade_time, _last_direction,
                        _TRUST, _LAST, lastCall, lastOk, calls, trustOps, elapses >>

(* the agent's pre-check: fx_agent_v46.py 94 calls _can_open_trade directly *)
CanOpenCall ==
    \E s \in AgentSymbols, side \in Sides, status \in ReadStatuses :
        LET g == _can_open_trade(module, env, status, positions, _last_trade_time,
                                 _last_direction, now, s, side)
        IN  /\ lastCall.kind = "none"
            /\ module # "idx"
            /\ lastCall' = [ kind |-> "check", symbol |-> s, side |-> side,
                             read_ok |-> status = "list",
                             allowed |-> g.allowed, reason |-> g.reason ]
            /\ _last_trade_time' = g.last_trade_time
            /\ _last_direction' = g.last_direction
            /\ UNCHANGED << calc, module, env, now, positions, _TRUST, _LAST,
                            lastOk, calls, trustOps, elapses >>

(* what a call leaves behind: the dicts, the position a fill opens, and the *)
(* observation of the call (refused: the order_send calls answered with a   *)
(* non-DONE retcode or with None)                                           *)
Returned(s, side, status, resp, r) ==
    /\ calls' = calls + 1
    /\ _TRUST' = r.T
    /\ _LAST' = r.L
    /\ _last_trade_time' = r.last_trade_time
    /\ _last_direction' = r.last_direction
    /\ positions' = IF r.accepted > 0
                    THEN [positions EXCEPT ![s] = @ + 1] ELSE positions
    /\ lastOk' = IF r.ok THEN Put(lastOk, s, now) ELSE lastOk
    /\ lastCall' =
         [ kind |-> "execute", symbol |-> s, side |-> side,
           read_ok |-> status = "list", exception |-> r.exception,
           ok |-> r.ok, blocked |-> r.blocked, reason |-> r.reason,
           attempts |-> r.attempts, error |-> r.error,
           sends |-> r.sends, accepted |-> r.accepted,
           refused |-> Cardinality({ i \in 1..r.sends :
                                       Answer(resp, i) \in {"reject", "none"} }),
           trust_updates |-> r.trust_updates ]
    /\ UNCHANGED << calc, module, env, now, trustOps, elapses >>

(* one call of the FX or XAU execute_trade under one behaviour of the gateway *)
Call(s, side, status, scen) ==
    \E r \in { execute_trade(module, env, status, positions, _TRUST, _LAST,
                             _last_trade_time, _last_direction, now,
                             s, side, scen) } :
        Returned(s, side, status, scen.resp, r)

IdxCall(s, side, status, inp, scen) ==
    \E r \in { idx_execute_trade(env, status, positions, _TRUST, _LAST,
                                 _last_trade_time, _last_direction, now,
                                 s, side, inp, scen) } :
        Returned(s, side, status, scen.resp, r)

ExecuteTrade ==
    /\ lastCall.kind = "none"
    /\ calls < MaxCalls
    /\ module # "idx"
    /\ \E s \in AgentSymbols, side \in Sides, status \in ReadStatuses :
        IF ~_can_open_trade(module, env, status, positions, _last_trade_time,
                            _last_direction, now, s, side).allowed
        THEN Call(s, side, status, Quiet)
        ELSE \E scen \in (IF module = "fx" THEN FxScenarios ELSE XauScenarios) :
                Call(s, side, status, scen)

IdxExecuteTrade ==
    /\ lastCall.kind = "none"
    /\ calls < MaxCalls
    /\ module = "idx"
    /\ \E s \in AgentSymbols, side \in Sides, inp \in IdxInputs :
        IF ~inp.accepted THEN IdxCall(s, side, "list", inp, Quiet)
        ELSE \E status \in ReadStatuses, scen \in IdxScenarios :
                IdxCall(s, side, status, inp, scen)

(* the caller takes the result and goes on: nothing else runs in between *)
Return ==
    /\ lastCall.kind # "none"
    /\ lastCall' = NoCall
    /\ UNCHANGED << calc, module, env, now, positions, _last_trade_time, _last_direction,
                    _TRUST, _LAST, lastOk, calls, trustOps, elapses >>

Next ==
    \/ Tick
    \/ GatewayOpen
    \/ GatewayClose
    \/ CanOpenCall
    \/ ExecuteTrade
    \/ IdxExecuteTrade
    \/ Return

Spec == Init /\ [][Next]_vars

-----------------------------------------------------------------------------
(* The trust store on its own: any sequence of updates and reads, with idle *)
(* periods in between                                                       *)

IdlePeriods == { HalfLifeMinutes * 60, DAY_SEC, xau_horizon_sec + 1 }
TrustSymbols == {"EURUSD"}

Elapse ==
    /\ elapses < MaxElapses
    /\ \E d \in IdlePeriods : now' = now + d
    /\ elapses' = elapses + 1
    /\ UNCHANGED << calc, module, env, positions, _last_trade_time, _last_direction,
                    _TRUST, _LAST, lastCall, lastOk, calls, trustOps >>

Stored(r) ==
    /\ _TRUST' = r.T
    /\ _LAST' = r.L
    /\ trustOps' = trustOps + 1
    /\ UNCHANGED << calc, module, env, now, positions, _last_trade_time, _last_direction,
                    lastCall, lastOk, calls, elapses >>

(* update_trust(symbol, won) of the FX and XAU stores *)
TrustUpdate ==
    /\ trustOps < MaxTrustOps
    /\ module # "idx"
    /\ \E s \in TrustSymbols, won \in BOOLEAN :
        Stored(update_trust(module, _TRUST, _LAST, now, s, won))

(* update_trust(symbol, side, conf_base, atr_pct) of the IDX store *)
IdxTrustUpdate ==
    /\ trustOps < MaxTrustOps
    /\ module = "idx"
    /\ \E s \in TrustSymbols, side \in Sides, c \in IdxConfs, a \in IdxAtrs :
        Stored(idx_update_trust(_TRUST, _LAST, now, s, side, c, a))

(* get_trust_level / get_trust_score / get_trust *)
TrustRead ==
    /\ trustOps < MaxTrustOps
    /\ \E s \in TrustSymbols :
        Stored(get_trust(module, _TRUST, _LAST, now, s))

NextTrust ==
    \/ Elapse
    \/ TrustUpdate
    \/ IdxTrustUpdate
    \/ TrustRead

SpecTrust == Init /\ [][NextTrust]_vars

-----------------------------------------------------------------------------
(* Position sizing: fx_v46/util/lot_scaler_v46.py compute_lot and            *)
(* fx_executor_v46._normalize_volume; idx_v46/util/idx_lot_scaler_v46.py     *)
(* compute_lot and idx_executor_v46._adjust_volume; xau_executor_v46.py      *)
(* 128-131.  Volumes are in units of 1/1000 lot, confidence in 1/1000.       *)

FX_MIN_LOTS == 30           \* FX_MIN_LOTS default 0.03
FX_MAX_LOTS == 300          \* FX_MAX_LOTS default 0.30
IDX_MIN_LOTS == 50          \* IDX_MIN_LOTS default 0.05
IDX_MAX_LOTS == 300         \* IDX_MAX_LOTS default 0.30
XAU_MIN_LOTS == 50          \* XAU_MIN_LOTS default 0.05
XAU_MAX_LOTS == 100         \* XAU_MAX_LOTS default 0.10
IDX_QUIET_LOT_MULT == 900   \* 0.9
IDX_HIGH_VOL_LOT_MULT == 800 \* 0.8

min_lots(m) == IF m = "fx" THEN FX_MIN_LOTS ELSE IF m = "xau" THEN XAU_MIN_LOTS ELSE IDX_MIN_LOTS
max_lots(m) == IF m = "fx" THEN FX_MAX_LOTS ELSE IF m = "xau" THEN XAU_MAX_LOTS ELSE IDX_MAX_LOTS

(* Python's round(n / d) for n >= 0, d > 0: to the nearest integer, an exact *)
(* half to the even neighbour                                                *)
round_half_even(n, d) ==
    LET q == n \div d
        r == n % d
    IN  IF 2 * r < d THEN q
        ELSE IF 2 * r > d THEN q + 1
        ELSE IF q % 2 = 0 THEN q ELSE q + 1

(* fx compute_lot, dynamic branch 35-40: round(min + (max - min) * conf, 3) *)
fx_compute_lot(confidence) ==
    LET conf == Max(0, Min(One, confidence))
    IN  FX_MIN_LOTS + round_half_even((FX_MAX_LOTS - FX_MIN_LOTS) * conf, One)

(* _normalize_volume 66-76: clamp to [vmin, vmax], then snap to the step *)
_normalize_volume(lots, venue) ==
    LET clamped == Max(venue.volume_min, Min(venue.volume_max, lots))
    IN  round_half_even(clamped, venue.volume_step) * venue.volume_step

(* xau execute_trade 128-131: round(min + (max - min) * confidence, 2); the *)
(* volume is sent as it is                                                  *)
xau_lot_size(confidence) ==
    10 * round_half_even(XAU_MIN_LOTS * One + (XAU_MAX_LOTS - XAU_MIN_LOTS) * confidence,
                         10 * One)

(* idx compute_lot 34-74; eff_conf is the value adjusted_confidence returns; *)
(* raw_lot is kept to the nearest 1/1000 lot                                  *)
idx_compute_lot(eff_conf, atr_class, venue) ==
    LET eff == IF atr_class = "quiet" THEN eff_conf * IDX_QUIET_LOT_MULT
               ELSE IF atr_class = "high" THEN eff_conf * IDX_HIGH_VOL_LOT_MULT
               ELSE eff_conf * One
        raw_lot == IDX_MIN_LOTS
                   + round_half_even((IDX_MAX_LOTS - IDX_MIN_LOTS) * eff, One * One)
        final_lot == Max(IDX_MIN_LOTS, Min(IDX_MAX_LOTS, raw_lot))
        in_range == IF final_lot < venue.volume_min THEN venue.volume_min
                    ELSE IF final_lot > venue.volume_max THEN venue.volume_max
                    ELSE final_lot
        stepped == round_half_even(in_range, venue.volume_step) * venue.volume_step
    IN  10 * round_half_even(stepped, 10)

(* _adjust_volume 32-36: clamp, count the steps from vol_min, round(adj, 2) *)
_adjust_volume(lots, venue) ==
    LET clamped == Max(venue.volume_min, Min(lots, venue.volume_max))
        steps == round_half_even(clamped - venue.volume_min, venue.volume_step)
    IN  10 * round_half_even(venue.volume_min + steps * venue.volume_step, 10)

(* the volume of the order request *)
submitted_volume(m, confidence, atr_class, venue) ==
    IF m = "fx" THEN _normalize_volume(fx_compute_lot(confidence), venue)
    ELSE IF m = "xau" THEN xau_lot_size(confidence)
    ELSE _adjust_volume(idx_compute_lot(confidence, atr_class, venue), venue)

(* what mt5.symbol_info reports: volume_min, volume_max, volume_step *)
Venue(vmin, vmax, vstep) ==
    [ volume_min |-> vmin, volume_max |-> vmax, volume_step |-> vstep ]

Venues ==
    { Venue(10, 100000, 10), Venue(100, 50000, 100), Venue(1000, 100000, 1000),
      Venue(10, 100000, 100), Venue(10, 360, 100), Venue(100, 460, 100),
      Venue(50, 250, 100) }

LotConfidences == {0, 250, 500, 750, One}
AtrClasses == {"quiet", "normal", "high"}

LotInputs ==
    [ kind : {"lots"}, done : {FALSE}, confidence : LotConfidences,
      atr_class : AtrClasses, venue : Venues, lots : {0} ]

InitLots ==
    /\ Started
    /\ calc \in LotInputs
    /\ module # "idx" => calc.atr_class = "normal"

Sized ==
    /\ calc.kind = "lots"
    /\ ~calc.done
    /\ calc' = [calc EXCEPT !.done = TRUE,
                            !.lots = submitted_volume(module, calc.confidence,
                                                      calc.atr_class, calc.venue)]
    /\ UNCHANGED << module, env, now, positions, _last_trade_time, _last_direction,
                    _TRUST, _LAST, lastCall, lastOk, calls, trustOps, elapses >>

FxSize == module = "fx" /\ Sized
XauSize == module = "xau" /\ Sized
IdxSize == module = "idx" /\ Sized

NextLots ==
    \/ FxSize
    \/ XauSize
    \/ IdxSize

SpecLots == InitLots /\ [][NextLots]_vars

-----------------------------------------------------------------------------
(* Confidence blender and decision engine:
   fx_v46/trust/trust_engine_v46.py, fx_v46/trust/trust_engine.py,
   xau_v46/trust/xau_trust_engine_v46.py, fx_v46/fx_decider_v46.py,
   fx_v46/fx_decider.py, xau_v46/xau_decider_v46.py.
   Trust is in 1/1000 as in the stores; confidences are in 1/1000000 so that
   round(x, 2) and round(x, 3) are real conversions; RSI is in points and
   ema_gap and atr_pct are in 1/100000. *)

Micro == One * One      \* 1.0 as a confidence

TRUST_WEIGHT == 400     \* trust_weight=0.4
AGENT_MIN_CONFIDENCE == 550000
FX_RSI_LONG_TH == 60
FX_RSI_SHORT_TH == 40
V4_RSI_LONG_TH == 55
V4_RSI_SHORT_TH == 45
XAU_RSI_LONG_TH == 55
XAU_RSI_SHORT_TH == 45
XAU_ATR_TARGET_MIN == 100
XAU_ATR_TARGET_MAX == 400
V4_ATR_LOW == 150
V4_ATR_HIGH == 400
VOL_PEN_BASE == 100     \* atr_pct / 0.0010
VOL_PEN_FLOOR == 600

clamp01(x) == Max(0, Min(Micro, x))

(* round(x, 2) and round(x, 3) of a confidence *)
round2(x) == round_half_even(x, 10000) * 10000
round3(x) == round_half_even(x, 1000) * 1000

(* fx v46 adjusted_confidence: t is what get_trust_level(symbol) returned *)
fx_adjusted_confidence(raw_conf, t, trust_weight) ==
    clamp01(RoundDiv((One - trust_weight) * raw_conf + trust_weight * t * One, One))

(* xau adjusted_confidence: t is _trust.get(symbol, 0.5) after _decay *)
xau_adjusted_confidence(raw_conf, t, trust_weight) ==
    round3(clamp01(RoundDiv((One - trust_weight) * raw_conf + trust_weight * t * One, One)))

(* fx v4 adjust_confidence: raw_conf * mult with mult = 1 + (trust - 0.5) * 0.3 *)
v4_adjust_confidence_unclamped(raw_conf, t) ==
    raw_conf + (raw_conf * (t - Neutral) * 3 + 5 * One) \div (10 * One)

v4_adjust_confidence(raw_conf, t) ==
    clamp01(raw_conf + (raw_conf * (t - Neutral) * 3 + 5 * One) \div (10 * One))

Engines == {"fx_v46", "fx_v4", "xau_v46"}
engine_module(e) == IF e = "xau_v46" THEN "xau" ELSE "fx"

adjusted_confidence(e, raw_conf, t, trust_weight) ==
    CASE e = "fx_v46" -> fx_adjusted_confidence(raw_conf, t, trust_weight)
      [] e = "xau_v46" -> xau_adjusted_confidence(raw_conf, t, trust_weight)
      [] OTHER -> v4_adjust_confidence(raw_conf, t)

(* 1000 * _sigmoid(h / 2) for h in -4 .. 4, to the nearest 1/1000 *)
SigmoidTable == << 119, 182, 269, 378, 500, 622, 731, 818, 881 >>
_sigmoid(h) == SigmoidTable[Max(-4, Min(4, h)) + 5]

Abs(x) == IF x >= 0 THEN x ELSE 0 - x
Sign(x) == IF x > 0 THEN 1 ELSE IF x < 0 THEN -1 ELSE 0

(* _conf_from_indicators: the sigmoid arguments in halves,
   2.5 * (rsi - 50) / 25 = (rsi - 50) / 10 and 2 * ema_sign * ema_mag *)
rsi_why(rsi) ==
    IF rsi >= 55 THEN "rsi_confirms_bull"
    ELSE IF rsi <= 45 THEN "rsi_confirms_bear" ELSE "rsi_neutral"

ema_arg(ema_gap, atr_pct) ==
    IF ema_gap = 0 THEN 0
    ELSE IF atr_pct = 0 THEN 4 * Sign(ema_gap)
    ELSE Sign(ema_gap) * Min(4, RoundDiv(2 * Abs(ema_gap), atr_pct))

_conf_from_indicators(rsi, ema_gap, atr_pct) ==
    LET rsi_conf == _sigmoid(RoundDiv(rsi - 50, 5))
        ema_conf == _sigmoid(ema_arg(ema_gap, atr_pct))
        vol_pen == Max(VOL_PEN_FLOOR, Min(One, (atr_pct * One) \div VOL_PEN_BASE))
    IN  [ raw |-> RoundDiv((rsi_conf + ema_conf) * vol_pen, 2),
          why |-> { rsi_why(rsi) } ]

Decision(side, has_accepted, accepted, adj_conf, confidence, why) ==
    [ side |-> side, has_accepted |-> has_accepted, accepted |-> accepted, adj_conf |-> adj_conf, confidence |-> confidence, why |-> why ]

(* decide_signal with the EMA gap compared inclusively *)
fx_decide_signal_gap_inclusive(feats, t) ==
    LET c == _conf_from_indicators(feats.rsi, feats.ema_gap, feats.atr_pct)
        side == IF feats.rsi >= FX_RSI_LONG_TH /\ feats.ema_gap >= 0 THEN "LONG"
                ELSE IF feats.rsi <= FX_RSI_SHORT_TH /\ feats.ema_gap <= 0 THEN "SHORT"
                ELSE ""
        tag == IF side = "LONG" THEN "ema_rsi_bull"
               ELSE IF side = "SHORT" THEN "ema_rsi_bear" ELSE "mixed_or_neutral"
        adj_conf == fx_adjusted_confidence(c.raw, t, TRUST_WEIGHT)
    IN  Decision(side, TRUE, side # "" /\ adj_conf >= AGENT_MIN_CONFIDENCE,
                 adj_conf, round2(adj_conf), c.why \cup {tag})

(* fx_decider_v46.decide_signal *)
fx_decide_signal(feats, t) ==
    LET c == _conf_from_indicators(feats.rsi, feats.ema_gap, feats.atr_pct)
        side == IF feats.rsi >= FX_RSI_LONG_TH /\ feats.ema_gap > 0 THEN "LONG"
                ELSE IF feats.rsi <= FX_RSI_SHORT_TH /\ feats.ema_gap < 0 THEN "SHORT"
                ELSE ""
        tag == IF side = "LONG" THEN "ema_rsi_bull"
               ELSE IF side = "SHORT" THEN "ema_rsi_bear" ELSE "mixed_or_neutral"
        adj_conf == fx_adjusted_confidence(c.raw, t, TRUST_WEIGHT)
    IN  Decision(side, TRUE, side # "" /\ adj_conf >= AGENT_MIN_CONFIDENCE,
                 adj_conf, round2(adj_conf), c.why \cup {tag})

(* fx_decider.decide_signal (fx v4) *)
v4_decide_signal(feats, t) ==
    LET regime == IF feats.ema_gap > 0 THEN "BULL"
                  ELSE IF feats.ema_gap < 0 THEN "BEAR" ELSE "NEUTRAL"
        rsi_up == feats.rsi > V4_RSI_LONG_TH
        rsi_down == ~rsi_up /\ feats.rsi < V4_RSI_SHORT_TH
        confirmed == (rsi_up /\ regime = "BULL") \/ (rsi_down /\ regime = "BEAR")
        penalised == feats.atr_pct > 0
                     /\ (feats.atr_pct < V4_ATR_LOW \/ feats.atr_pct > V4_ATR_HIGH)
        \* binary64: 0.3 + 0.3 - 0.05 is 0.5499999999999999, the other sums are exact
        confidence == (IF regime = "NEUTRAL" THEN 0 ELSE 300000)
                      + (IF confirmed THEN 300000 ELSE 0)
                      - (IF penalised THEN 50000 ELSE 0)
                      - (IF confirmed /\ penalised THEN 1 ELSE 0)
        raw_conf == clamp01(confidence)
        adj_conf == v4_adjust_confidence(raw_conf, t)
        accepted == adj_conf >= AGENT_MIN_CONFIDENCE
        side == IF ~accepted THEN ""
                ELSE IF regime = "BULL" THEN "LONG"
                ELSE IF regime = "BEAR" THEN "SHORT" ELSE ""
        why == (IF regime = "NEUTRAL" THEN {"ema_flat"} ELSE {})
               \cup { IF rsi_up THEN (IF regime = "BULL" THEN "rsi_confirms_bull" ELSE "rsi_mixed")
                      ELSE IF rsi_down THEN (IF regime = "BEAR" THEN "rsi_confirms_bear" ELSE "rsi_mixed")
                      ELSE "rsi_neutral" }
               \cup (IF feats.atr_pct > 0
                     THEN { IF feats.atr_pct < V4_ATR_LOW THEN "low_vol"
                            ELSE IF feats.atr_pct > V4_ATR_HIGH THEN "high_vol"
                            ELSE "stable_vol" }
                     ELSE {})
               \cup (IF accepted THEN {} ELSE {"below_conf_threshold"})
    IN  Decision(side, TRUE, accepted, adj_conf, round3(adj_conf), why)

(* decide_signal taking the side from the RSI alone *)
xau_decide_signal_rsi_only(feats, t) ==
    LET adj_factor == IF feats.atr_pct < XAU_ATR_TARGET_MIN THEN 700
                      ELSE IF feats.atr_pct > XAU_ATR_TARGET_MAX THEN 600 ELSE One
        conf == feats.confidence * adj_factor
        side == IF feats.rsi >= XAU_RSI_LONG_TH THEN "LONG"
                ELSE IF feats.rsi <= XAU_RSI_SHORT_TH THEN "SHORT"
                ELSE ""
        tag == IF side = "LONG" THEN "ema_rsi_bull"
               ELSE IF side = "SHORT" THEN "ema_rsi_bear" ELSE "mixed_or_neutral"
        adj_conf == xau_adjusted_confidence(conf, t, TRUST_WEIGHT)
    IN  IF feats.atr_pct > 2 * XAU_ATR_TARGET_MAX
        THEN Decision("", FALSE, FALSE, 0, 0, {"extreme_volatility"})
        ELSE Decision(side, FALSE, FALSE, adj_conf, round2(adj_conf), {tag})

(* xau_decider_v46.decide_signal: the result has a preview and no accepted *)
xau_decide_signal(feats, t) ==
    LET adj_factor == IF feats.atr_pct < XAU_ATR_TARGET_MIN THEN 700
                      ELSE IF feats.atr_pct > XAU_ATR_TARGET_MAX THEN 600 ELSE One
        band == IF feats.atr_pct < XAU_ATR_TARGET_MIN THEN {"atr_low_conf_reduced"}
                ELSE IF feats.atr_pct > XAU_ATR_TARGET_MAX THEN {"atr_high_conf_reduced"}
                ELSE {}
        conf == feats.confidence * adj_factor
        side == IF feats.ema_gap > 0 /\ feats.rsi >= XAU_RSI_LONG_TH THEN "LONG"
                ELSE IF feats.ema_gap < 0 /\ feats.rsi <= XAU_RSI_SHORT_TH THEN "SHORT"
                ELSE ""
        tag == IF side = "LONG" THEN "ema_rsi_bull"
               ELSE IF side = "SHORT" THEN "ema_rsi_bear" ELSE "mixed_or_neutral"
        adj_conf == xau_adjusted_confidence(conf, t, TRUST_WEIGHT)
    IN  IF feats.atr_pct > 2 * XAU_ATR_TARGET_MAX
        THEN Decision("", FALSE, FALSE, 0, 0, {"extreme_volatility"})
        ELSE Decision(side, FALSE, FALSE, adj_conf, round2(adj_conf), band \cup {tag})

decide_signal(e, feats, t) ==
    CASE e = "fx_v46" -> fx_decide_signal(feats, t)
      [] e = "xau_v46" -> xau_decide_signal(feats, t)
      [] OTHER -> v4_decide_signal(feats, t)

(* Inputs of the decision engine and of the blender *)
RsiValues == {30, 40, 45, 50, 55, 60, 70}
GapRatios == {-2, -1, 0, 1, 2}
AtrValues == {0, 50, 72, 100, 200, 450, 900}
FeatureConfidences == {0, 500, One}
DecideTrusts == {0, Neutral, One}
BlendRawConfs == {0, 250000, 500000, 750000, Micro}
BlendTrusts == {0, 250, Neutral, 750, One}
BlendWeights == {0, TRUST_WEIGHT, One}

(* features as the feature builders give them: ema_gap = ema_fast - ema_slow *)
Features ==
    { [ rsi |-> r, ema_gap |-> g * a, atr_pct |-> a, confidence |-> c ] :
        r \in RsiValues, g \in GapRatios, a \in AtrValues, c \in FeatureConfidences }

NoDecision == Decision("", FALSE, FALSE, 0, 0, {})

DecideInputs ==
    [ kind : {"decide"}, done : {FALSE}, engine : Engines, feats : Features,
      trust : DecideTrusts, decision : {NoDecision} ]

BlendInputs ==
    [ kind : {"blend"}, done : {FALSE}, engine : Engines, raw_conf : BlendRawConfs,
      trust : BlendTrusts, trust_weight : BlendWeights, adj_conf : {0} ]

InitDecide ==
    /\ Started
    /\ calc \in DecideInputs \cup BlendInputs
    /\ module = engine_module(calc.engine)
    /\ (calc.kind = "decide" /\ calc.engine # "xau_v46") => calc.feats.confidence = 0
    /\ (calc.kind = "blend" /\ calc.engine = "fx_v4") => calc.trust_weight = TRUST_WEIGHT

Decide(e) ==
    /\ calc.kind = "decide"
    /\ calc.engine = e
    /\ ~calc.done
    /\ calc' = [calc EXCEPT !.done = TRUE,
                            !.decision = decide_signal(e, calc.feats, calc.trust)]
    /\ UNCHANGED << module, env, now, positions, _last_trade_time, _last_direction,
                    _TRUST, _LAST, lastCall, lastOk, calls, trustOps, elapses >>

Blend(e) ==
    /\ calc.kind = "blend"
    /\ calc.engine = e
    /\ ~calc.done
    /\ calc' = [calc EXCEPT !.done = TRUE,
                            !.adj_conf = adjusted_confidence(e, calc.raw_conf, calc.trust,
                                                             calc.trust_weight)]
    /\ UNCHANGED << module, env, now, positions, _last_trade_time, _last_direction,
                    _TRUST, _LAST, lastCall, lastOk, calls, trustOps, elapses >>

FxDecide == Decide("fx_v46")
V4Decide == Decide("fx_v4")
XauDecide == Decide("xau_v46")
FxBlend == Blend("fx_v46")
V4Blend == Blend("fx_v4")
XauBlend == Blend("xau_v46")

NextDecide ==
    \/ FxDecide
    \/ V4Decide
    \/ XauDecide
    \/ FxBlend
    \/ V4Blend
    \/ XauBlend

SpecDecide == InitDecide /\ [][NextDecide]_vars

(* Vocabulary of the decision properties *)
Decided == calc.kind = "decide" /\ calc.done
Blended == calc.kind = "blend" /\ calc.done

rsi_long_th(e) == IF e = "fx_v46" THEN FX_RSI_LONG_TH ELSE IF e = "xau_v46" THEN XAU_RSI_LONG_TH ELSE V4_RSI_LONG_TH
rsi_short_th(e) == IF e = "fx_v46" THEN FX_RSI_SHORT_TH ELSE IF e = "xau_v46" THEN XAU_RSI_SHORT_TH ELSE V4_RSI_SHORT_TH
BullConfirmed == calc.feats.ema_gap > 0 /\ calc.feats.rsi >= rsi_long_th(calc.engine)
BearConfirmed == calc.feats.ema_gap < 0 /\ calc.feats.rsi <= rsi_short_th(calc.engine)
ExtremeVolatility == calc.engine = "xau_v46" /\ calc.feats.atr_pct > 2 * XAU_ATR_TARGET_MAX

-----------------------------------------------------------------------------
(* The batch loop: run_once and _run_symbol of fx_v46/fx_agent_v46.py,
   xau_v46/xau_agent_v46_bkp_05112025.py and idx_v46/idx_agent_v46.py.
   What happens to one symbol is an input of the step: whether the market
   data is there, the side of the decision, what the positions read returns
   and how the gateway behaves during each execute_trade call. *)

FX_SYMBOL_BATCH_DELAY == 2      \* seconds slept after each symbol

CycleSymbols == << "EURUSD", "USDJPY" >>    \* self.env.symbols / self.symbols

Tally(executed, skipped, blocked, guardrail, errors) ==
    [ executed |-> executed, skipped |-> skipped, blocked |-> blocked, guardrail |-> guardrail, errors |-> errors ]

NoTally == Tally(0, 0, 0, 0, 0)
Counted(key) == [ NoTally EXCEPT ![key] = 1 ]
AddTally(a, b) == [ k \in DOMAIN a |-> a[k] + b[k] ]

(* the executor's dicts, the trust store and the account's positions *)
World(T, L, ltt, ldir, pos) ==
    [ T |-> T, L |-> L, last_trade_time |-> ltt, last_direction |-> ldir, pos |-> pos ]

(* the world after an execute_trade call on symbol: a fill opens a position *)
after_call(w, r, symbol) ==
    World(r.T, r.L, r.last_trade_time, r.last_direction,
          IF r.accepted > 0 THEN [w.pos EXCEPT ![symbol] = @ + 1] ELSE w.pos)

(* What _run_symbol did with one symbol: the tallies it incremented, the
   number of execute_trade calls it made and of orders they sent, the
   win/loss trust updates applied, whether an exception reached the except
   clause of _run_symbol, whether a guardrail refused the trade, whether an
   exception left _run_symbol, and the world it leaves. *)
Ran(tally, executes, sends, updates, exception, guard_blocked, escaped, w) ==
    [ tally |-> tally, executes |-> executes, sends |-> sends, updates |-> updates, exception |-> exception, guard_blocked |-> guard_blocked, escaped |-> escaped, w |-> w ]

(* fx_agent_v46 123-143: how the result of the second call is counted *)
fx_count_result(r) ==
    IF r.exception = "propagated" THEN Counted("errors")
    ELSE IF r.ok THEN Counted("executed")
    ELSE IF r.blocked THEN Counted("blocked")
    ELSE Counted("errors")

(* idx_agent_v46 133-139: how a result of execute_trade is counted *)
idx_count_result(r) ==
    IF r.exception = "propagated" THEN Counted("errors")
    ELSE IF r.ok THEN Counted("executed")
    ELSE IF r.blocked THEN Counted("guardrail")
    ELSE Counted("errors")

(* the tally the agent of module m gives to the result r of execute_trade;
   the XAU agent counts as the FX agent does (84-98) *)
count_result(m, r) == IF m = "idx" THEN idx_count_result(r) ELSE fx_count_result(r)

(* the value of a one-element set *)
The(S) == CHOOSE x \in S : TRUE

(* fx_agent_v46 133-143 after the second execute_trade call returned r2 *)
fx_after_second(w1, sym, t1, r1, r2) ==
    Ran(AddTally(t1, fx_count_result(r2)), 2, r1.sends + r2.sends,
        r1.trust_updates \o r2.trust_updates,
        r1.exception = "propagated" \/ r2.exception = "propagated",
        r2.blocked, FALSE, after_call(w1, r2, sym))

(* fx_agent_v46 108-130 after the first execute_trade call returned r1 in
   the world w1: its result is not looked at, the guardrail is asked again
   and execute_trade is called a second time *)
fx_after_first(cfg, w1, t, sym, inp, r1) ==
    LET t1 == IF r1.exception = "propagated" THEN Counted("errors")
              ELSE Counted("executed")
    IN  IF ~_can_open_trade("fx", cfg, inp.status, w1.pos, w1.last_trade_time,
                            w1.last_direction, t, sym, inp.side).allowed
        THEN Ran(AddTally(t1, Counted("blocked")), 1, r1.sends, r1.trust_updates,
                 r1.exception = "propagated", TRUE, FALSE, w1)
        ELSE The({ fx_after_second(w1, sym, t1, r1, r2) :
                     r2 \in { execute_trade("fx", cfg, inp.status, w1.pos, w1.T, w1.L,
                                            w1.last_trade_time, w1.last_direction, t,
                                            sym, inp.side, inp.scen2) } })

(* fx_agent_v46 93-107 in the world w0 the first guardrail check g1 left *)
fx_after_guardrail(cfg, w0, t, sym, inp, g1) ==
    IF ~g1.allowed
    THEN Ran(Counted("blocked"), 0, 0, << >>, FALSE, TRUE, FALSE, w0)
    ELSE The({ The({ fx_after_first(cfg, w1, t, sym, inp, r1) :
                       w1 \in { after_call(w0, r1, sym) } }) :
                 r1 \in { execute_trade("fx", cfg, inp.status, w0.pos, w0.T, w0.L,
                                        w0.last_trade_time, w0.last_direction, t, sym,
                                        inp.side, inp.scen1) } })

(* the try block of FxAgentV46._run_symbol when compute_features and
   decide_signal return, fx_agent_v46.py 63-143 *)
fx_run_symbol_body(cfg, w, t, sym, inp) ==
    IF inp.data # "ok" \/ inp.side = ""
    THEN Ran(Counted("skipped"), 0, 0, << >>, FALSE, FALSE, FALSE, w)
    ELSE IF ~inp.params
    THEN Ran(Counted("errors"), 0, 0, << >>, FALSE, FALSE, FALSE, w)
    ELSE The({ The({ fx_after_guardrail(cfg, w0, t, sym, inp, g1) :
                       w0 \in { World(w.T, w.L, g1.last_trade_time, g1.last_direction,
                                      w.pos) } }) :
                 g1 \in { _can_open_trade("fx", cfg, inp.status, w.pos,
                                          w.last_trade_time, w.last_direction, t, sym,
                                          inp.side) } })

(* FxAgentV46._run_symbol without its except clause: the exception leaves
   _run_symbol and with it the for loop of run_once *)
fx_run_symbol_uncaught(cfg, w, t, sym, inp) ==
    IF inp.data = "raise"
    THEN Ran(NoTally, 0, 0, << >>, TRUE, FALSE, TRUE, w)
    ELSE fx_run_symbol_body(cfg, w, t, sym, inp)

(* FxAgentV46._run_symbol, fx_agent_v46.py 48-147: an exception of
   compute_features or decide_signal is caught by the except clause *)
fx_run_symbol(cfg, w, t, sym, inp) ==
    IF inp.data = "raise"
    THEN Ran(Counted("errors"), 0, 0, << >>, TRUE, FALSE, FALSE, w)
    ELSE fx_run_symbol_body(cfg, w, t, sym, inp)

(* xau_agent_v46_bkp_05112025 84-98 after execute_trade returned r in the
   world w1: the agent updates the trust once more itself *)
xau_after_call(w1, t, sym, r) ==
    IF r.exception = "propagated"
    THEN Ran(Counted("errors"), 1, r.sends, r.trust_updates, TRUE, FALSE, FALSE, w1)
    ELSE IF r.ok
    THEN The({ Ran(Counted("executed"), 1, r.sends, r.trust_updates \o << "win" >>,
                   FALSE, FALSE, FALSE, [w1 EXCEPT !.T = won.T, !.L = won.L]) :
                 won \in { xau_update_trust(w1.T, w1.L, t, sym, TRUE) } })
    ELSE IF r.blocked
    THEN Ran(Counted("blocked"), 1, r.sends, r.trust_updates, FALSE, TRUE, FALSE, w1)
    ELSE The({ Ran(Counted("errors"), 1, r.sends, r.trust_updates \o << "loss" >>,
                   FALSE, FALSE, FALSE, [w1 EXCEPT !.T = lost.T, !.L = lost.L]) :
                 lost \in { xau_update_trust(w1.T, w1.L, t, sym, FALSE) } })

(* XauAgentV46._run_symbol, xau_agent_v46_bkp_05112025.py 51-102 *)
xau_run_symbol(cfg, w, t, sym, inp) ==
    IF inp.data = "raise"
    THEN Ran(Counted("errors"), 0, 0, << >>, TRUE, FALSE, FALSE, w)
    ELSE IF inp.data # "ok"
    THEN Ran(Counted("errors"), 0, 0, << >>, FALSE, FALSE, FALSE, w)
    ELSE IF inp.side = ""
    THEN Ran(Counted("skipped"), 0, 0, << >>, FALSE, FALSE, FALSE, w)
    ELSE The({ The({ xau_after_call(w1, t, sym, r) : w1 \in { after_call(w, r, sym) } }) :
                 r \in { execute_trade("xau", cfg, inp.status, w.pos, w.T, w.L,
                                       w.last_trade_time, w.last_direction, t, sym,
                                       inp.side, inp.scen1) } })

(* IdxAgentV46._run_symbol, idx_agent_v46.py 80-143: execute_trade(symbol,
   decision, feats) is called with the keywords side, sl_points, tp_points,
   confidence and atr_pct, which is a TypeError before the executor runs *)
idx_run_symbol(cfg, w, t, sym, inp) ==
    IF inp.data = "raise"
    THEN Ran(Counted("errors"), 0, 0, << >>, TRUE, FALSE, FALSE, w)
    ELSE IF ~inp.in_session \/ inp.data # "ok" \/ inp.side = "" \/ ~inp.conf_ok
    THEN Ran(Counted("skipped"), 0, 0, << >>, FALSE, FALSE, FALSE, w)
    ELSE Ran(Counted("errors"), 0, 0, << >>, TRUE, FALSE, FALSE, w)

run_symbol(m, cfg, w, t, sym, inp) ==
    CASE m = "fx" -> fx_run_symbol(cfg, w, t, sym, inp)
      [] m = "xau" -> xau_run_symbol(cfg, w, t, sym, inp)
      [] OTHER -> idx_run_symbol(cfg, w, t, sym, inp)

(* the gateway during the execute_trade calls of a cycle: it accepts the
   order, refuses every order, or a gateway call raises before or inside
   the executor's try block *)
Refused == [fault |-> "none", resp |-> << "reject", "reject", "reject", "reject" >>]
CycleScenarios ==
    { Quiet, Refused, [fault |-> "info_raise", resp |-> << >>],
      [fault |-> "tick_none", resp |-> << >>] }

DataStates == {"ok", "none", "too_few_bars", "raise"}

(* inputs that do not matter on the path taken are fixed *)
CycleInputs(m) ==
    { inp \in [ data : DataStates, side : Sides \cup {""}, params : BOOLEAN,
                status : {"list", "none"}, scen1 : CycleScenarios,
                scen2 : CycleScenarios, in_session : BOOLEAN, conf_ok : BOOLEAN ] :
        /\ (inp.data # "ok" \/ inp.side = "")
             => (inp.params /\ inp.status = "list" /\ inp.scen1 = Quiet)
        /\ m # "fx" => (inp.params /\ inp.scen2 = Quiet)
        /\ m # "idx" => (inp.in_session /\ inp.conf_ok)
        /\ m = "idx" => (inp.status = "list" /\ inp.scen1 = Quiet)
        /\ (m = "fx" /\ ~inp.params) => (inp.status = "list" /\ inp.scen1 = Quiet)
        /\ inp.scen1 = Quiet => inp.scen2 = Quiet }

NoSummary == NoTally

InitCycle ==
    /\ Started
    /\ calc = [ kind |-> "cycle", i |-> 1, log |-> << >>, summary |-> NoSummary,
                ended |-> FALSE ]

(* one turn of the for loop of run_once *)
RunSymbol(m) ==
    /\ calc.kind = "cycle"
    /\ module = m
    /\ ~calc.ended
    /\ calc.i <= Len(CycleSymbols)
    /\ \E inp \in CycleInputs(m) :
       \E r \in { run_symbol(m, env, World(_TRUST, _LAST, _last_trade_time,
                                           _last_direction, positions),
                             now, CycleSymbols[calc.i], inp) } :
        /\ _TRUST' = r.w.T
        /\ _LAST' = r.w.L
        /\ _last_trade_time' = r.w.last_trade_time
        /\ _last_direction' = r.w.last_direction
        /\ positions' = r.w.pos
        /\ now' = IF m = "fx" /\ ~r.escaped THEN now + FX_SYMBOL_BATCH_DELAY ELSE now
        /\ calc' = [calc EXCEPT
                      !.i = IF r.escaped THEN @ ELSE @ + 1,
                      !.ended = r.escaped,
                      !.summary = AddTally(@, r.tally),
                      !.log = Append(@, [ symbol |-> CycleSymbols[calc.i],
                                          data |-> inp.data, side |-> inp.side,
                                          tally |-> r.tally, executes |-> r.executes,
                                          sends |-> r.sends, updates |-> r.updates,
                                          exception |-> r.exception,
                                          guard_blocked |-> r.guard_blocked,
                                          state_changed |->
                                              \/ r.w.last_trade_time # _last_trade_time
                                              \/ r.w.last_direction # _last_direction ])]
    /\ UNCHANGED << module, env, lastCall, lastOk, calls, trustOps, elapses >>

FxRunSymbol == RunSymbol("fx")
XauRunSymbol == RunSymbol("xau")
IdxRunSymbol == RunSymbol("idx")

(* the loop is over: run_once logs the summary and returns *)
EndCycle ==
    /\ calc.kind = "cycle"
    /\ ~calc.ended
    /\ calc.i = Len(CycleSymbols) + 1
    /\ calc' = [calc EXCEPT !.ended = TRUE]
    /\ UNCHANGED << module, env, now, positions, _last_trade_time, _last_direction,
                    _TRUST, _LAST, lastCall, lastOk, calls, trustOps, elapses >>

NextCycle ==
    \/ GatewayOpen
    \/ FxRunSymbol
    \/ XauRunSymbol
    \/ IdxRunSymbol
    \/ EndCycle

SpecCycle == InitCycle /\ [][NextCycle]_vars

(* run_once is a for loop over a finite list whose body returns: the loop
   keeps taking its next turn *)
CycleStep == FxRunSymbol \/ XauRunSymbol \/ IdxRunSymbol \/ EndCycle
SpecCycleLive == InitCycle /\ [][NextCycle]_vars /\ WF_vars(CycleStep)

(* Vocabulary of the batch loop properties *)
InCycle == calc.kind = "cycle"
CycleEnded == calc.kind = "cycle" /\ calc.ended
Entries == IF calc.kind = "cycle" THEN { calc.log[k] : k \in 1..Len(calc.log) } ELSE {}
(* the four tallies the summary is read by *)
FourTallies(tally) == tally.executed + tally.skipped + tally.blocked + tally.errors
(* execute_trade returns ok = True exactly where it records the win, so an
   entry saw an ok result when a win is among its trust updates *)
HadOkResult(e) == \E k \in 1..Len(e.updates) : e.updates[k] = "win"

-----------------------------------------------------------------------------
(* The trust stores observed call by call: fx_v46/trust/trust_engine_v46.py,
   xau_v46/trust/xau_trust_engine_v46.py, idx_v46/trust/idx_trust_engine_v46.py
   and fx_v46/trust/trust_engine.py (fx v4), whose state is the "trust" mapping
   of trust_state.json, here in 1/1000000.  Observed values are in 1/1000000
   for every store. *)

LEARNING_RATE == 100        \* 0.1
V4_DECAY_RATE == 100        \* drift = (0.5 - val) * 0.01
MaxStoreOps == 4

DEFAULT_STATE == [ s \in {"EURUSD", "GBPUSD", "USDJPY", "AUDUSD"} |-> Neutral * One ]

(* fx v4 decay_trust *)
decay_trust(state) ==
    [ sym \in DOMAIN state |-> state[sym] + RoundDiv(Neutral * One - state[sym], V4_DECAY_RATE) ]

(* fx v4 update_trust *)
v4_update_trust(state, symbol, outcome) ==
    LET val == Get(state, symbol, Neutral * One)
        moved == IF outcome THEN val + RoundDiv(LEARNING_RATE * (Micro - val), One)
                 ELSE val - RoundDiv(LEARNING_RATE * val, One)
    IN  Put(state, symbol, clamp01(moved))

StoreEngines == {"fx_v46", "fx_v4", "xau_v46", "idx_v46"}
store_module(e) == IF e = "xau_v46" THEN "xau" ELSE IF e = "idx_v46" THEN "idx" ELSE "fx"

(* the trust a store holds for a symbol before a call, its default when absent *)
held_trust(e, T, file, symbol) ==
    CASE e = "fx_v4" -> Get(file, symbol, Neutral * One)
      [] e = "idx_v46" -> IF symbol \in DOMAIN T THEN T[symbol].trust * One ELSE 0
      [] OTHER -> Get(T, symbol, Neutral) * One

(* one call of a store: the state it leaves and the trust it returns or stores *)
store_op(e, op, T, L, file, t, symbol) ==
    CASE e = "fx_v4" ->
           LET f == IF op = "decay" THEN decay_trust(file)
                    ELSE v4_update_trust(file, symbol, op = "win")
           IN  [ T |-> T, L |-> L, file |-> f, value |-> f[symbol] ]
      [] op = "read" ->
           LET r == get_trust(store_module(e), T, L, t, symbol)
           IN  [ T |-> r.T, L |-> r.L, file |-> file, value |-> r.value * One ]
      [] OTHER ->
           LET r == update_trust(store_module(e), T, L, t, symbol, op = "win")
           IN  [ T |-> r.T, L |-> r.L, file |-> file, value |-> r.T[symbol] * One ]

InitStore ==
    /\ Started
    /\ calc \in [ kind : {"store"}, engine : StoreEngines, ops : {<< >>},
                  trusts : {<< >>}, file : {DEFAULT_STATE}, seen : {FALSE},
                  first : {FALSE}, before : {0}, value : {0} ]
    /\ module = store_module(calc.engine)

StoreCall(e, op) ==
    /\ calc.kind = "store"
    /\ calc.engine = e
    /\ Len(calc.ops) < MaxStoreOps
    /\ \E s \in TrustSymbols :
       \E r \in { store_op(e, op, _TRUST, _LAST, calc.file, now, s) } :
        /\ _TRUST' = r.T
        /\ _LAST' = r.L
        /\ calc' = [calc EXCEPT !.ops = Append(@, op),
                                !.trusts = Append(@, r.value),
                                !.file = r.file,
                                !.first = ~calc.seen,
                                !.seen = TRUE,
                                !.before = held_trust(e, _TRUST, calc.file, s),
                                !.value = r.value]
    /\ UNCHANGED << module, env, now, positions, _last_trade_time, _last_direction,
                    lastCall, lastOk, calls, trustOps, elapses >>

(* time passes between two calls *)
StoreElapse ==
    /\ calc.kind = "store"
    /\ Len(calc.ops) < MaxStoreOps
    /\ \E d \in IdlePeriods : now' = now + d
    /\ calc' = [calc EXCEPT !.ops = Append(@, "elapse"), !.trusts = Append(@, 0)]
    /\ UNCHANGED << module, env, positions, _last_trade_time, _last_direction,
                    _TRUST, _LAST, lastCall, lastOk, calls, trustOps, elapses >>

FxWin == StoreCall("fx_v46", "win")
FxLoss == StoreCall("fx_v46", "loss")
FxRead == StoreCall("fx_v46", "read")
V4Win == StoreCall("fx_v4", "win")
V4Loss == StoreCall("fx_v4", "loss")
V4Decay == StoreCall("fx_v4", "decay")
XauWin == StoreCall("xau_v46", "win")
XauLoss == StoreCall("xau_v46", "loss")
XauRead == StoreCall("xau_v46", "read")
IdxRead == StoreCall("idx_v46", "read")

NextStore ==
    \/ FxWin
    \/ FxLoss
    \/ FxRead
    \/ V4Win
    \/ V4Loss
    \/ V4Decay
    \/ XauWin
    \/ XauLoss
    \/ XauRead
    \/ IdxRead
    \/ StoreElapse

SpecStore == InitStore /\ [][NextStore]_vars

(* Vocabulary of the trust store properties *)
StoreCalled(op) == calc.kind = "store" /\ calc.ops # << >> /\ calc.ops[Len(calc.ops)] = op

-----------------------------------------------------------------------------
(* Two writers of the fx v4 trust file.  The executor (fx_executor.py
   184-241) runs in the agent's process and the trade monitor
   (trade/trade_monitor.py 30-64) in a service of its own; both call
   update_trust of trust/trust_engine.py, which loads trust_state.json,
   changes one entry and writes the whole file back. *)

MaxUpdates == 2         \* update_trust calls of one actor

Actors == {"executor", "monitor"}

NoFile == [ exists |-> FALSE, trust |-> EmptyDict ]
TrustFile(state) == [ exists |-> TRUE, trust |-> state ]

(* trust_engine.load_trust: the file's trust table, the default without a file *)
load_trust(file) == IF file.exists THEN file.trust ELSE DEFAULT_STATE

(* trust_engine.save_trust *)
save_trust(data) == TrustFile(data)

StartFiles ==
    { NoFile } \cup { TrustFile(Put(DEFAULT_STATE, "EURUSD", v)) : v \in {0, 900000} }

RECURSIVE apply_all(_, _)
(* update_trust applied call after call *)
apply_all(state, ups) ==
    IF ups = << >> THEN state
    ELSE apply_all(v4_update_trust(state, Head(ups).symbol, Head(ups).outcome), Tail(ups))

InitRace ==
    /\ Started
    /\ module = "fx"
    /\ calc \in [ kind : {"race"}, start : StartFiles, file : StartFiles,
                  pc : {[a \in Actors |-> "idle"]},
                  data : {[a \in Actors |-> EmptyDict]},
                  req : {[a \in Actors |-> [symbol |-> "", outcome |-> FALSE]]},
                  count : {[a \in Actors |-> 0]},
                  saved : {<< >>} ]
    /\ calc.file = calc.start

(* update_trust, first half: data = load_trust() *)
Load(a) ==
    /\ calc.kind = "race"
    /\ calc.pc[a] = "idle"
    /\ calc.count[a] < MaxUpdates
    /\ \E s \in AgentSymbols, o \in BOOLEAN :
        calc' = [calc EXCEPT !.pc[a] = "loaded",
                             !.data[a] = load_trust(calc.file),
                             !.req[a] = [symbol |-> s, outcome |-> o]]
    /\ UNCHANGED << module, env, now, positions, _last_trade_time, _last_direction,
                    _TRUST, _LAST, lastCall, lastOk, calls, trustOps, elapses >>

(* update_trust, second half: the entry is changed and save_trust(data) *)
Save(a) ==
    /\ calc.kind = "race"
    /\ calc.pc[a] = "loaded"
    /\ calc' = [calc EXCEPT !.pc[a] = "idle",
                            !.file = save_trust(v4_update_trust(calc.data[a], calc.req[a].symbol,
                                                                calc.req[a].outcome)),
                            !.data[a] = EmptyDict,
                            !.count[a] = @ + 1,
                            !.saved = Append(@, calc.req[a])]
    /\ UNCHANGED << module, env, now, positions, _last_trade_time, _last_direction,
                    _TRUST, _LAST, lastCall, lastOk, calls, trustOps, elapses >>

ExecutorLoad == Load("executor")
ExecutorSave == Save("executor")
MonitorLoad == Load("monitor")
MonitorSave == Save("monitor")

NextRace ==
    \/ ExecutorLoad
    \/ ExecutorSave
    \/ MonitorLoad
    \/ MonitorSave

SpecRace == InitRace /\ [][NextRace]_vars

(* Vocabulary of the trust file properties *)
Quiescent == calc.kind = "race" /\ \A a \in Actors : calc.pc[a] = "idle"

-----------------------------------------------------------------------------
(* What the decision engine does to the features it is given and what the
   guardrail check and the executor do to the decision.  Python passes both
   dicts by reference: a callee that writes into them changes the caller's
   object.  sl and tp are in hundredths of a point, confidences and trust in
   thousandths. *)

IDX_DEFAULT_SL == 10000         \* decision.get("sl", 100.0)
IDX_DEFAULT_TP == 20000         \* decision.get("tp", 200.0)
IDX_MIN_STOP_POINTS == 10000    \* MT5_MIN_STOP_POINTS, 100
IDX_STOP_WIDEN_MULT == 2        \* MT5_STOP_WIDEN_MULT, 2.0

(* the why list of the features: xau_features_v46._conf_from_indicators
   19-25, fx_features_v46.compute_features 56-66; the executor of the IDX
   module is looked at without its features *)
features_why(m, feats) ==
    IF m = "idx" THEN << >>
    ELSE IF m = "xau" THEN << rsi_why(feats.rsi) >>
    ELSE IF feats.ema_gap > 0 /\ feats.rsi > FX_RSI_LONG_TH THEN << "ema_rsi_bull" >>
    ELSE IF feats.ema_gap < 0 /\ feats.rsi < FX_RSI_SHORT_TH THEN << "ema_rsi_bear" >>
    ELSE << "neutral" >>

(* xau_decider_v46.decide_signal: why = features.get("why", []) is the
   features' own list, and every why.append writes into it *)
xau_why_after(feats, why) ==
    LET band == IF feats.atr_pct < XAU_ATR_TARGET_MIN THEN << "atr_low_conf_reduced" >>
                ELSE IF feats.atr_pct > XAU_ATR_TARGET_MAX THEN << "atr_high_conf_reduced" >>
                ELSE << >>
        tag == IF feats.ema_gap > 0 /\ feats.rsi >= XAU_RSI_LONG_TH THEN "ema_rsi_bull"
               ELSE IF feats.ema_gap < 0 /\ feats.rsi <= XAU_RSI_SHORT_TH THEN "ema_rsi_bear"
               ELSE "mixed_or_neutral"
    IN  IF feats.atr_pct > 2 * XAU_ATR_TARGET_MAX THEN why \o band
        ELSE why \o band \o << tag >>

(* the features' why list after decide_signal returned; fx_decider_v46 builds
   a list of its own (_conf_from_indicators 11-29) and only reads feats *)
why_after(m, feats, why) == IF m = "xau" THEN xau_why_after(feats, why) ELSE why

(* idx_executor_v46.execute_trade 74-75 *)
idx_final_conf(conf_adj_base, trust) ==
    Max(0, Min(One, RoundDiv(conf_adj_base * (600 + RoundDiv(800 * trust, One)), One)))

(* idx_executor_v46.execute_trade 81-116: the scaled and widened distances *)
idx_scaled_stops(symbol, base_sl, base_tp, final_conf, info) ==
    LET sl0 == RoundDiv(base_sl * (1200 - RoundDiv(400 * final_conf, One)), One)
        tp0 == RoundDiv(base_tp * (800 + RoundDiv(800 * final_conf, One)), One)
        floor1 == IF info.found
                  THEN IF info.min_level_price > 0
                       THEN info.min_level_price * IDX_STOP_WIDEN_MULT ELSE 0
                  ELSE IDX_MIN_STOP_POINTS * IDX_STOP_WIDEN_MULT
        floor2 == IF info.found /\ symbol = "UK100.s"
                  THEN (IDX_MIN_STOP_POINTS * IDX_STOP_WIDEN_MULT * 3) \div 2 ELSE 0
    IN  [ sl |-> Max(Max(sl0, floor1), floor2), tp |-> Max(Max(tp0, floor1), floor2) ]

(* the caller's decision dict after idx_executor_v46.execute_trade: lines
   119-120 store the scaled distances into it, unless the call returned at
   61-62 or symbol_info raised *)
idx_decision_after(symbol, decision, trust, info) ==
    IF ~decision.accepted \/ info.raises THEN decision
    ELSE LET s == idx_scaled_stops(symbol, decision.sl, decision.tp,
                                   idx_final_conf(decision.confidence_adj, trust), info)
         IN  [decision EXCEPT !.sl = s.sl, !.tp = s.tp]

(* the decision after the guardrail check and the executor ran; the FX and
   XAU agents hand the executor the side and numbers, never the dict *)
decision_after(m, symbol, decision, trust, info) ==
    IF m = "idx" THEN idx_decision_after(symbol, decision, trust, info) ELSE decision

FrameSymbols == {"UK100.s", "NAS100.s"}
FrameFeatures == { f \in Features : f.confidence = 500 /\ f.atr_pct \in {50, 200, 450, 900} }
FrameDecisions ==
    [ accepted : BOOLEAN, side : Sides, confidence_adj : {0, 250, 500, One},
      sl : {IDX_DEFAULT_SL, 30000}, tp : {IDX_DEFAULT_TP} ]
FrameTrusts == {0, Neutral, One}
FrameInfos ==
    { [ found |-> FALSE, raises |-> FALSE, min_level_price |-> 0 ],
      [ found |-> FALSE, raises |-> TRUE, min_level_price |-> 0 ],
      [ found |-> TRUE, raises |-> FALSE, min_level_price |-> 0 ],
      [ found |-> TRUE, raises |-> FALSE, min_level_price |-> 5000 ] }

InitFrame ==
    /\ Started
    /\ calc \in [ kind : {"frame"}, stage : {"features"}, symbol : FrameSymbols,
                  feats : FrameFeatures, why0 : {<< >>}, why : {<< >>},
                  decision0 : FrameDecisions, decision : FrameDecisions,
                  trust : FrameTrusts, info : FrameInfos ]
    /\ calc.decision = calc.decision0
    /\ module = "idx" => calc.feats \in { f \in FrameFeatures : f.rsi = 50 /\ f.ema_gap = 0 /\ f.atr_pct = 200 }
    /\ module # "idx" => ( /\ calc.symbol = "NAS100.s"
                           /\ calc.trust = Neutral
                           /\ calc.info = [ found |-> TRUE, raises |-> FALSE, min_level_price |-> 0 ]
                           /\ calc.decision.sl = IDX_DEFAULT_SL
                           /\ calc.decision.confidence_adj = 500 )

(* compute_features returned the snapshot with its why list *)
ComputeFeatures ==
    /\ calc.kind = "frame"
    /\ calc.stage = "features"
    /\ calc' = [calc EXCEPT !.stage = "computed",
                            !.why0 = features_why(module, calc.feats),
                            !.why = features_why(module, calc.feats)]
    /\ UNCHANGED << module, env, now, positions, _last_trade_time, _last_direction,
                    _TRUST, _LAST, lastCall, lastOk, calls, trustOps, elapses >>

(* decide_signal(feats, env) returned *)
DecideOn(m) ==
    /\ calc.kind = "frame"
    /\ module = m
    /\ calc.stage = "computed"
    /\ calc' = [calc EXCEPT !.stage = "decided",
                            !.why = why_after(m, calc.feats, calc.why)]
    /\ UNCHANGED << module, env, now, positions, _last_trade_time, _last_direction,
                    _TRUST, _LAST, lastCall, lastOk, calls, trustOps, elapses >>

(* the guardrail check and execute_trade returned or raised *)
ExecuteOn(m) ==
    /\ calc.kind = "frame"
    /\ module = m
    /\ calc.stage = IF m = "idx" THEN "computed" ELSE "decided"
    /\ calc' = [calc EXCEPT !.stage = "executed",
                            !.decision = decision_after(m, calc.symbol, calc.decision,
                                                        calc.trust, calc.info)]
    /\ UNCHANGED << module, env, now, positions, _last_trade_time, _last_direction,
                    _TRUST, _LAST, lastCall, lastOk, calls, trustOps, elapses >>

FxDecideOn == DecideOn("fx")
XauDecideOn == DecideOn("xau")
FxExecuteOn == ExecuteOn("fx")
XauExecuteOn == ExecuteOn("xau")
IdxExecuteOn == ExecuteOn("idx")

NextFrame ==
    \/ ComputeFeatures
    \/ FxDecideOn
    \/ XauDecideOn
    \/ FxExecuteOn
    \/ XauExecuteOn
    \/ IdxExecuteOn

SpecFrame == InitFrame /\ [][NextFrame]_vars

(* Vocabulary of the frame properties *)
DecisionReturned == calc.kind = "frame" /\ calc.stage \in {"decided", "executed"}
ExecutorReturned == calc.kind = "frame" /\ calc.stage = "executed"

-----------------------------------------------------------------------------
(* The stop prices of the two submissions of one execute_trade call whose
   first order is refused.  Prices are in tenths of a point of a symbol with
   ten points to the pip; multipliers are in tenths. *)

Tenth == 10                     \* model units per point
PipSize == 100                  \* _pip_size in model units
MT5_STOP_WIDEN_MULT == 20       \* _widen_mult default 2.0
XAU_STOP_WIDEN_MULT == 15       \* XAU_STOP_WIDEN_MULT default 1.5
RETRY_WIDEN_MIN == 12           \* max(_widen_mult(), 1.2)

(* _price_round: Python round(), halves to the even neighbour *)
_price_round(x) ==
    LET q == x \div Tenth
        r == x % Tenth
    IN  IF 2 * r < Tenth THEN q * Tenth
        ELSE IF 2 * r > Tenth THEN (q + 1) * Tenth
        ELSE IF q % 2 = 0 THEN q * Tenth ELSE (q + 1) * Tenth

Dir(side) == IF side = "LONG" THEN 1 ELSE 0 - 1

Prices(price, sl, tp) == [ price |-> price, sl |-> sl, tp |-> tp ]

(* _build_prices: the stops are taken from the tick price, then all three
   are rounded *)
_build_prices(side, tick, sl_pips, tp_pips) ==
    Prices(_price_round(tick), _price_round(tick - Dir(side) * sl_pips * PipSize),
           _price_round(tick + Dir(side) * tp_pips * PipSize))

(* the stops at mult tenths of the configured distances from price *)
widened(side, price, sl_pips, tp_pips, mult) ==
    Prices(price, _price_round(price - Dir(side) * ((sl_pips * mult * PipSize) \div 10)),
           _price_round(price + Dir(side) * ((tp_pips * mult * PipSize) \div 10)))

(* fx_executor_v46._min_stop_distance_ok *)
_min_stop_distance_ok(min_points, p) ==
    \/ min_points <= 0
    \/ ( Abs(p.price - p.sl) >= min_points * Tenth /\ Abs(p.price - p.tp) >= min_points * Tenth )

(* fx_executor._respect_min_stops *)
_respect_min_stops(side, min_points, p) ==
    IF min_points <= 0 THEN p
    ELSE Prices(p.price,
                _price_round(IF Abs(p.price - p.sl) < min_points * Tenth
                             THEN p.price - Dir(side) * min_points * Tenth ELSE p.sl),
                _price_round(IF Abs(p.price - p.tp) < min_points * Tenth
                             THEN p.price + Dir(side) * min_points * Tenth ELSE p.tp))

Stops(first, second) == [ first |-> first, second |-> second ]

(* fx_executor_v46.execute_trade 198-236 *)
fx_stops(side, tick, sl_pips, tp_pips, mult, min_points) ==
    LET base == _build_prices(side, tick, sl_pips, tp_pips)
    IN  Stops(IF _min_stop_distance_ok(min_points, base) THEN base
              ELSE widened(side, base.price, sl_pips, tp_pips, mult),
              widened(side, base.price, sl_pips, tp_pips, Max(mult, RETRY_WIDEN_MIN)))

(* xau_executor_v46.execute_trade 136-164 *)
xau_stops(side, tick, sl_pips, tp_pips, mult, min_points) ==
    LET base == _build_prices(side, tick, sl_pips, tp_pips)
    IN  Stops(base, widened(side, base.price, sl_pips, tp_pips, mult))

(* fx_executor.execute_trade 176-213 *)
v4_stops(side, tick, sl_pips, tp_pips, mult, min_points) ==
    LET base == _build_prices(side, tick, sl_pips, tp_pips)
    IN  Stops(_respect_min_stops(side, min_points, base),
              _respect_min_stops(side, min_points,
                                 widened(side, base.price, sl_pips, tp_pips, mult)))

stops_of(e, side, tick, sl_pips, tp_pips, mult, min_points) ==
    CASE e = "fx_v46" -> fx_stops(side, tick, sl_pips, tp_pips, mult, min_points)
      [] e = "xau_v46" -> xau_stops(side, tick, sl_pips, tp_pips, mult, min_points)
      [] OTHER -> v4_stops(side, tick, sl_pips, tp_pips, mult, min_points)

(* Inputs: tick prices on and between points, configured distances in pips,
   configured multipliers around the defaults, the venue's minimum stop
   distance in points *)
TickPrices == {1000000, 1000005, 1000015}
SlPips == {4, 40}
TpPips == {9, 90}
WidenMults == {5, 10, RETRY_WIDEN_MIN, XAU_STOP_WIDEN_MULT, MT5_STOP_WIDEN_MULT, 30}
MinStopPoints == {0, 50, 1000}

NoStops == Stops(Prices(0, 0, 0), Prices(0, 0, 0))

InitWiden ==
    /\ Started
    /\ calc \in [ kind : {"widen"}, done : {FALSE}, engine : Engines, side : Sides,
                  tick : TickPrices, sl_pips : SlPips, tp_pips : TpPips,
                  mult : WidenMults, min_points : MinStopPoints, stops : {NoStops} ]
    /\ module = engine_module(calc.engine)

(* execute_trade with the first submission refused: both submissions are made *)
SubmitTwice(e) ==
    /\ calc.kind = "widen"
    /\ calc.engine = e
    /\ ~calc.done
    /\ calc' = [calc EXCEPT !.done = TRUE,
                            !.stops = stops_of(e, calc.side, calc.tick, calc.sl_pips,
                                               calc.tp_pips, calc.mult, calc.min_points)]
    /\ UNCHANGED << module, env, now, positions, _last_trade_time, _last_direction,
                    _TRUST, _LAST, lastCall, lastOk, calls, trustOps, elapses >>

FxSubmitTwice == SubmitTwice("fx_v46")
V4SubmitTwice == SubmitTwice("fx_v4")
XauSubmitTwice == SubmitTwice("xau_v46")

NextWiden ==
    \/ FxSubmitTwice
    \/ V4SubmitTwice
    \/ XauSubmitTwice

SpecWiden == InitWiden /\ [][NextWiden]_vars

(* Vocabulary of the stop properties *)
Resubmitted == calc.kind = "widen" /\ calc.done
SlDistance(p) == Abs(p.price - p.sl)
TpDistance(p) == Abs(p.price - p.tp)

-----------------------------------------------------------------------------
(* Cycle after cycle on an account nobody else trades: positions are opened
   by the fills of execute_trade alone, the loop makes one call after the
   other, and time passes between calls.  The gateway answers every
   positions read and every order as it likes. *)

MaxCapCalls == 3        \* execute_trade calls of the run
MaxCapWaits == 2        \* cooldown periods waited for

InitCaps ==
    /\ Started
    /\ module # "idx"
    /\ calc = [ kind |-> "caps", calls |-> 0, waits |-> 0, fills |-> 0,
                blind |-> FALSE ]

(* one execute_trade call of the loop *)
CapsExecute(m) ==
    /\ calc.kind = "caps"
    /\ module = m
    /\ calc.calls < MaxCapCalls
    /\ \E s \in AgentSymbols, side \in Sides, status \in ReadStatuses :
       \E scen \in { Quiet, Refused } :
       \E r \in { execute_trade(m, env, status, positions, _TRUST, _LAST,
                                _last_trade_time, _last_direction, now, s, side, scen) } :
        /\ _TRUST' = r.T
        /\ _LAST' = r.L
        /\ _last_trade_time' = r.last_trade_time
        /\ _last_direction' = r.last_direction
        /\ positions' = IF r.accepted > 0 THEN [positions EXCEPT ![s] = @ + 1]
                        ELSE positions
        /\ calc' = [calc EXCEPT !.calls = @ + 1,
                                !.fills = @ + (IF r.accepted > 0 THEN 1 ELSE 0),
                                !.blind = @ \/ status # "list"]
    /\ UNCHANGED << module, env, now, lastCall, lastOk, calls, trustOps, elapses >>

FxCapsExecute == CapsExecute("fx")
XauCapsExecute == CapsExecute("xau")

(* the loop sleeps until the cooldown is over *)
CapsWait ==
    /\ calc.kind = "caps"
    /\ calc.waits < MaxCapWaits
    /\ now' = now + env.cooldown_sec
    /\ calc' = [calc EXCEPT !.waits = @ + 1]
    /\ UNCHANGED << module, env, positions, _last_trade_time, _last_direction,
                    _TRUST, _LAST, lastCall, lastOk, calls, trustOps, elapses >>

NextCaps ==
    \/ FxCapsExecute
    \/ XauCapsExecute
    \/ CapsWait

SpecCaps == InitCaps /\ [][NextCaps]_vars

-----------------------------------------------------------------------------
(* From the decision to the gateway: what _run_symbol does with the result
   of decide_signal.  The account is empty and the gateway accepts every
   order, so that only the decision stands between the symbol and an order.
   The IDX executor is given its decision directly. *)

GateEngines == {"fx_v46", "xau_v46", "idx_v46"}
gate_module(e) == IF e = "idx_v46" THEN "idx" ELSE engine_module(e)

(* the inputs of _run_symbol once the decision has the side `side` *)
GateInput(side) ==
    [ data |-> "ok", side |-> side, params |-> TRUE, status |-> "list",
      scen1 |-> Quiet, scen2 |-> Quiet, in_session |-> TRUE, conf_ok |-> TRUE ]

(* the decisions idx_executor_v46.execute_trade is called with *)
IdxDecisions ==
    { Decision(side, TRUE, acc, c * One, c * One, {}) :
        side \in Sides, acc \in BOOLEAN, c \in IdxConfs }

InitGate ==
    /\ Started
    /\ calc \in [ kind : {"gate"}, engine : GateEngines, feats : Features,
                  trust : DecideTrusts, stage : {"features", "decided"},
                  decision : {NoDecision} \cup IdxDecisions, sends : {0} ]
    /\ module = gate_module(calc.engine)
    /\ calc.engine = "fx_v46" => calc.feats.confidence = 0
    /\ calc.engine # "idx_v46" => ( calc.stage = "features" /\ calc.decision = NoDecision )
    /\ calc.engine = "idx_v46"
         => ( /\ calc.stage = "decided"
              /\ calc.decision \in IdxDecisions
              /\ calc.trust = Neutral
              /\ calc.feats \in { f \in Features : f.rsi = 50 /\ f.ema_gap = 0 /\ f.confidence = 0 /\ f.atr_pct \in IdxAtrs } )

(* decision = decide_signal(feats, env) *)
GateDecide(e) ==
    /\ calc.kind = "gate"
    /\ calc.engine = e
    /\ calc.stage = "features"
    /\ calc' = [calc EXCEPT !.stage = "decided",
                            !.decision = decide_signal(e, calc.feats, calc.trust)]
    /\ UNCHANGED << module, env, now, positions, _last_trade_time, _last_direction,
                    _TRUST, _LAST, lastCall, lastOk, calls, trustOps, elapses >>

(* the rest of _run_symbol: side test, guardrail, execute_trade *)
GateRun(e) ==
    /\ calc.kind = "gate"
    /\ calc.engine = e
    /\ calc.stage = "decided"
    /\ \E r \in { run_symbol(gate_module(e), env,
                             World(_TRUST, _LAST, _last_trade_time, _last_direction,
                                   positions),
                             now, "EURUSD", GateInput(calc.decision.side)) } :
        /\ _TRUST' = r.w.T
        /\ _LAST' = r.w.L
        /\ _last_trade_time' = r.w.last_trade_time
        /\ _last_direction' = r.w.last_direction
        /\ positions' = r.w.pos
        /\ calc' = [calc EXCEPT !.stage = "done", !.sends = r.sends]
    /\ UNCHANGED << module, env, now, lastCall, lastOk, calls, trustOps, elapses >>

(* idx_executor_v46.execute_trade(symbol, decision, feats) *)
IdxGateExecute ==
    /\ calc.kind = "gate"
    /\ calc.engine = "idx_v46"
    /\ calc.stage = "decided"
    /\ \E r \in { idx_execute_trade(env, "list", positions, _TRUST, _LAST,
                                    _last_trade_time, _last_direction, now, "EURUSD",
                                    calc.decision.side,
                                    [ accepted |-> calc.decision.accepted,
                                      confidence_raw |-> calc.decision.confidence \div One,
                                      atr_pct |-> calc.feats.atr_pct ],
                                    Quiet) } :
        /\ _TRUST' = r.T
        /\ _LAST' = r.L
        /\ _last_trade_time' = r.last_trade_time
        /\ _last_direction' = r.last_direction
        /\ positions' = IF r.accepted > 0 THEN [positions EXCEPT !["EURUSD"] = @ + 1]
                        ELSE positions
        /\ calc' = [calc EXCEPT !.stage = "done", !.sends = r.sends]
    /\ UNCHANGED << module, env, now, lastCall, lastOk, calls, trustOps, elapses >>

FxGateDecide == GateDecide("fx_v46")
XauGateDecide == GateDecide("xau_v46")
FxGateRun == GateRun("fx_v46")
XauGateRun == GateRun("xau_v46")

NextGate ==
    \/ FxGateDecide
    \/ XauGateDecide
    \/ FxGateRun
    \/ XauGateRun
    \/ IdxGateExecute

SpecGate == InitGate /\ [][NextGate]_vars

-----------------------------------------------------------------------------
(* The orders of one execute_trade call as the gateway receives them, on
   venues of different price precision.  The tick carries bid and ask; the
   venue's point (ten to the minus info.digits) is `point` model units, the
   pip of the executor stays PipSize. *)

(* _price_round(price, digits): Python round(), halves to the even
   neighbour, on the grid of the venue's point *)
_price_round_at(x, point) ==
    LET q == x \div point
        r == x % point
    IN  IF 2 * r < point THEN q * point
        ELSE IF 2 * r > point THEN (q + 1) * point
        ELSE IF q % 2 = 0 THEN q * point ELSE (q + 1) * point

(* the price of a sell order whatever the side *)
tick_price_bid(side, tick) == tick.bid

(* price = tick.ask if side == "LONG" else tick.bid *)
tick_price(side, tick) == IF side = "LONG" THEN tick.ask ELSE tick.bid

(* fx_executor_v46._build_prices 149-165 *)
fx_build_prices(side, tick, sl_pips, tp_pips, point) ==
    Prices(_price_round_at(tick_price(side, tick), point),
           _price_round_at(tick_price(side, tick) - Dir(side) * sl_pips * PipSize, point),
           _price_round_at(tick_price(side, tick) + Dir(side) * tp_pips * PipSize, point))

(* the stops at mult tenths of the configured distances from the rounded
   price, fx_executor_v46 208-213 and 224-229 *)
fx_widen_prices(side, price, sl_pips, tp_pips, mult, point) ==
    Prices(price,
           _price_round_at(price - Dir(side) * ((sl_pips * mult * PipSize) \div 10), point),
           _price_round_at(price + Dir(side) * ((tp_pips * mult * PipSize) \div 10), point))

(* _min_stop_distance_ok with min_dist = stops_level_points * point *)
fx_min_stop_ok(min_points, point, p) ==
    \/ min_points <= 0
    \/ ( Abs(p.price - p.sl) >= min_points * point /\ Abs(p.price - p.tp) >= min_points * point )

(* the first request of fx_executor_v46.execute_trade, 202-215 *)
fx_first_order(side, tick, sl_pips, tp_pips, mult, min_points, point) ==
    The({ IF fx_min_stop_ok(min_points, point, base) THEN base
          ELSE fx_widen_prices(side, base.price, sl_pips, tp_pips, mult, point) :
            base \in { fx_build_prices(side, tick, sl_pips, tp_pips, point) } })

(* the retry request of fx_executor_v46.execute_trade, 224-236 *)
fx_retry_order(side, tick, sl_pips, tp_pips, mult, min_points, point) ==
    fx_widen_prices(side, fx_build_prices(side, tick, sl_pips, tp_pips, point).price,
                    sl_pips, tp_pips, Max(mult, RETRY_WIDEN_MIN), point)

(* the request of idx_executor_v46.execute_trade, 152-178: the distances are
   in points and nothing is rounded *)
idx_order(side, tick, sl_scaled, tp_scaled, point) ==
    Prices(tick_price(side, tick),
           tick_price(side, tick) - Dir(side) * sl_scaled * point,
           tick_price(side, tick) + Dir(side) * tp_scaled * point)

(* Inputs: ticks on and between the points of the venue, five-, three- and
   two-digit venues, distances of one pip and of the defaults *)
OrderEngines == {"fx_v46", "idx_v46"}
Ticks == { [ bid |-> b, ask |-> b + s ] : b \in {1000000, 1000005, 1005000}, s \in {10, 25} }
Points == {Tenth, 1000, 10000}
OrderSlPips == {1, 40}
OrderTpPips == {1, 90}
OrderMults == {5, 10, MT5_STOP_WIDEN_MULT}
OrderMinStops == {0, 50}

InitOrder ==
    /\ Started
    /\ calc \in [ kind : {"order"}, engine : OrderEngines, side : Sides, tick : Ticks,
                  sl_pips : OrderSlPips, tp_pips : OrderTpPips, mult : OrderMults,
                  min_points : OrderMinStops, point : Points, orders : { << >> },
                  done : {FALSE} ]
    /\ module = gate_module(calc.engine)
    /\ calc.engine = "idx_v46" => ( calc.mult = 10 /\ calc.min_points = 0 )

(* the first order_send of execute_trade; the gateway accepts it or not *)
FxFirstOrder ==
    /\ calc.kind = "order"
    /\ calc.engine = "fx_v46"
    /\ calc.orders = << >>
    /\ \E accepted \in BOOLEAN :
         calc' = [calc EXCEPT !.orders = << fx_first_order(calc.side, calc.tick, calc.sl_pips,
                                                           calc.tp_pips, calc.mult,
                                                           calc.min_points, calc.point) >>,
                              !.done = accepted]
    /\ UNCHANGED << module, env, now, positions, _last_trade_time, _last_direction,
                    _TRUST, _LAST, lastCall, lastOk, calls, trustOps, elapses >>

(* the first order was refused: the retry order_send *)
FxRetryOrder ==
    /\ calc.kind = "order"
    /\ calc.engine = "fx_v46"
    /\ Len(calc.orders) = 1
    /\ ~calc.done
    /\ calc' = [calc EXCEPT !.orders = Append(@, fx_retry_order(calc.side, calc.tick,
                                                                calc.sl_pips, calc.tp_pips,
                                                                calc.mult, calc.min_points,
                                                                calc.point)),
                            !.done = TRUE]
    /\ UNCHANGED << module, env, now, positions, _last_trade_time, _last_direction,
                    _TRUST, _LAST, lastCall, lastOk, calls, trustOps, elapses >>

(* the one order_send of the IDX executor *)
IdxOrder ==
    /\ calc.kind = "order"
    /\ calc.engine = "idx_v46"
    /\ calc.orders = << >>
    /\ calc' = [calc EXCEPT !.orders = << idx_order(calc.side, calc.tick, calc.sl_pips,
                                                    calc.tp_pips, calc.point) >>,
                            !.done = TRUE]
    /\ UNCHANGED << module, env, now, positions, _last_trade_time, _last_direction,
                    _TRUST, _LAST, lastCall, lastOk, calls, trustOps, elapses >>

NextOrder ==
    \/ FxFirstOrder
    \/ FxRetryOrder
    \/ IdxOrder

SpecOrder == InitOrder /\ [][NextOrder]_vars

(* Vocabulary of the order properties *)
Orders == IF calc.kind = "order" THEN { calc.orders[k] : k \in 1..Len(calc.orders) } ELSE {}
StopsAround(side, o) ==
    IF side = "LONG" THEN o.sl < o.price /\ o.price < o.tp
    ELSE o.tp < o.price /\ o.price < o.sl
(* the price the venue quotes for the side, on the grid where the executor
   rounds *)
QuotedPrice ==
    IF calc.engine = "idx_v46"
    THEN IF calc.side = "LONG" THEN calc.tick.ask ELSE calc.tick.bid
    ELSE _price_round_at(IF calc.side = "LONG" THEN calc.tick.ask ELSE calc.tick.bid,
                         calc.point)
(* the smallest distance an attempt is computed with: the executor's FX
   distances are in pips and may be multiplied by less than one before the
   first send, the IDX distances are in points *)
LeastDistance(pips) ==
    IF calc.engine = "idx_v46" THEN pips * calc.point
    ELSE (pips * Min(calc.mult, 10) * PipSize) \div 10
DistancesClearAPoint ==
    /\ LeastDistance(calc.sl_pips) > calc.point
    /\ LeastDistance(calc.tp_pips) > calc.point

-----------------------------------------------------------------------------
(* The same-direction guardrail over time: fills, canOpen calls, the
   cooldown running out and positions being closed by the venue, on one
   symbol of an account nobody else trades and a gateway that accepts every
   order.  `held` lists the sides of the symbol's open positions as
   positions_get returns them, oldest first. *)

MaxDirSteps == 5
DirSymbol == "EURUSD"

(* fx_executor._can_open_trade (fx v4), 50-102: the side it compares with is
   that of the symbol's first open position *)
v4_can_open_trade(cfg, status, pos, held, ltt, t, symbol, side) ==
    LET seen == positions_get(status, pos)
        kept == cfg.agent_symbols \cap AllSymbols
        total_active == CountIn(seen, kept)
        per_symbol == IF symbol \in kept THEN seen[symbol] ELSE 0
        open_positions == IF status = "list" /\ symbol \in kept THEN held ELSE << >>
    IN  IF total_active >= cfg.agent_max_open THEN "global_cap"
        ELSE IF per_symbol >= cfg.agent_max_per_symbol THEN "symbol_cap"
        ELSE IF Get(ltt, symbol, 0) # 0 /\ t - Get(ltt, symbol, 0) < cfg.cooldown_sec
        THEN "cooldown"
        ELSE IF open_positions # << >> /\ cfg.block_same_direction
                /\ Head(open_positions) = side
        THEN "same_direction"
        ELSE "none"

(* canOpen of engine e *)
can_open(e, cfg, status, pos, held, ltt, ldir, t, symbol, side) ==
    IF e = "fx_v4"
    THEN v4_can_open_trade(cfg, status, pos, held, ltt, t, symbol, side) = "none"
    ELSE _can_open_trade(engine_module(e), cfg, status, pos, ltt, ldir, t, symbol,
                         side).allowed

(* fx_executor.execute_trade (fx v4), 153-194, when the gateway accepts the
   first order: guardrail, then the stamps and the win *)
v4_execute_trade(cfg, status, pos, held, file, ltt, ldir, t, symbol, side) ==
    IF v4_can_open_trade(cfg, status, pos, held, ltt, t, symbol, side) # "none"
    THEN [ ok |-> FALSE, last_trade_time |-> ltt, last_direction |-> ldir,
           T |-> EmptyDict, L |-> EmptyDict, file |-> file ]
    ELSE [ ok |-> TRUE, last_trade_time |-> Put(ltt, symbol, t),
           last_direction |-> Put(ldir, symbol, side),
           T |-> EmptyDict, L |-> EmptyDict,
           file |-> v4_update_trust(file, symbol, TRUE) ]

(* execute_trade of engine e with an accepting gateway, as the record of
   what it leaves *)
dir_execute(e, cfg, status, pos, held, file, T, L, ltt, ldir, t, symbol, side) ==
    IF e = "fx_v4"
    THEN v4_execute_trade(cfg, status, pos, held, file, ltt, ldir, t, symbol, side)
    ELSE The({ [ ok |-> r.ok, last_trade_time |-> r.last_trade_time,
                 last_direction |-> r.last_direction, T |-> r.T, L |-> r.L,
                 file |-> file ] :
               r \in { execute_trade(engine_module(e), cfg, status, pos, T, L, ltt, ldir,
                                     t, symbol, side, Quiet) } })

NotAsked == [ kind |-> "none" ]

InitDirection ==
    /\ Started
    /\ calc \in [ kind : {"direction"}, engine : Engines, held : { << >> },
                  last_fill : {""}, asked : {NotAsked}, steps : {0},
                  file : {DEFAULT_STATE} ]
    /\ module = engine_module(calc.engine)

(* execute_trade(symbol, side) *)
DirExecute(e) ==
    /\ calc.kind = "direction"
    /\ calc.engine = e
    /\ calc.steps < MaxDirSteps
    /\ \E side \in Sides, status \in {"list", "none"} :
       \E r \in { dir_execute(e, env, status, positions, calc.held, calc.file, _TRUST,
                              _LAST, _last_trade_time, _last_direction, now, DirSymbol,
                              side) } :
        /\ _TRUST' = IF e = "fx_v4" THEN _TRUST ELSE r.T
        /\ _LAST' = IF e = "fx_v4" THEN _LAST ELSE r.L
        /\ _last_trade_time' = r.last_trade_time
        /\ _last_direction' = r.last_direction
        /\ positions' = IF r.ok THEN [positions EXCEPT ![DirSymbol] = @ + 1] ELSE positions
        /\ calc' = [calc EXCEPT !.steps = @ + 1,
                                !.file = r.file,
                                !.held = IF r.ok THEN Append(@, side) ELSE @,
                                !.last_fill = IF r.ok THEN side ELSE @]
    /\ UNCHANGED << module, env, now, lastCall, lastOk, calls, trustOps, elapses >>

(* canOpen(symbol, side) *)
DirCanOpen(e) ==
    /\ calc.kind = "direction"
    /\ calc.engine = e
    /\ calc.steps < MaxDirSteps
    /\ \E side \in Sides, status \in {"list", "none"} :
         calc' = [calc EXCEPT !.steps = @ + 1,
                              !.asked = [ kind |-> "asked", side |-> side,
                                          last_fill |-> calc.last_fill,
                                          open |-> Len(calc.held),
                                          since |-> now - Get(_last_trade_time, DirSymbol, 0),
                                          allowed |-> can_open(e, env, status, positions,
                                                               calc.held, _last_trade_time,
                                                               _last_direction, now,
                                                               DirSymbol, side) ]]
    /\ UNCHANGED << module, env, now, positions, _last_trade_time, _last_direction,
                    _TRUST, _LAST, lastCall, lastOk, calls, trustOps, elapses >>

FxDirExecute == DirExecute("fx_v46")
V4DirExecute == DirExecute("fx_v4")
XauDirExecute == DirExecute("xau_v46")
FxDirCanOpen == DirCanOpen("fx_v46")
V4DirCanOpen == DirCanOpen("fx_v4")
XauDirCanOpen == DirCanOpen("xau_v46")

(* the cooldown runs out *)
DirWait ==
    /\ calc.kind = "direction"
    /\ calc.steps < MaxDirSteps
    /\ now' = now + env.cooldown_sec
    /\ calc' = [calc EXCEPT !.steps = @ + 1]
    /\ UNCHANGED << module, env, positions, _last_trade_time, _last_direction,
                    _TRUST, _LAST, lastCall, lastOk, calls, trustOps, elapses >>

(* the venue closes the symbol's oldest position at its stop or target *)
DirClose ==
    /\ calc.kind = "direction"
    /\ calc.steps < MaxDirSteps
    /\ calc.held # << >>
    /\ positions' = [positions EXCEPT ![DirSymbol] = @ - 1]
    /\ calc' = [calc EXCEPT !.steps = @ + 1, !.held = Tail(@)]
    /\ UNCHANGED << module, env, now, _last_trade_time, _last_direction,
                    _TRUST, _LAST, lastCall, lastOk, calls, trustOps, elapses >>

NextDirection ==
    \/ FxDirExecute
    \/ V4DirExecute
    \/ XauDirExecute
    \/ FxDirCanOpen
    \/ V4DirCanOpen
    \/ XauDirCanOpen
    \/ DirWait
    \/ DirClose

SpecDirection == InitDirection /\ [][NextDirection]_vars

(* Vocabulary of the direction properties *)
Asked == calc.kind = "direction" /\ calc.asked.kind = "asked"

-----------------------------------------------------------------------------
(* Vocabulary of the properties *)

Executed == lastCall.kind = "execute"
Checked == lastCall.kind = "check"

(* the positions the guardrail counted: what the gateway's read returned *)
Seen(read_ok) == IF read_ok THEN positions ELSE NoPositions

ManagedOpen(read_ok) ==
    CountIn(Seen(read_ok), IF module = "idx" THEN AllSymbols ELSE AgentSymbols)

GlobalCapReached(read_ok) == ManagedOpen(read_ok) >= env.agent_max_open
SymbolCapReached(s, read_ok) == Seen(read_ok)[s] >= env.agent_max_per_symbol
CoolingDown(s) == now - Get(_last_trade_time, s, 0) < env.cooldown_sec
SameDirection(s, side) ==
    env.block_same_direction /\ Get(_last_direction, s, "") = side

(* the four conditions under which canOpen allows *)
FourHold(s, side, read_ok) ==
    /\ ~GlobalCapReached(read_ok)
    /\ ~SymbolCapReached(s, read_ok)
    /\ ~CoolingDown(s)
    /\ ~SameDirection(s, side)

(* the guardrail of the running agent blocks (s, side): IDX checks the caps only *)
Blocking(s, side, read_ok) ==
    IF module = "idx" THEN GlobalCapReached(read_ok) \/ SymbolCapReached(s, read_ok)
    ELSE ~FourHold(s, side, read_ok)

-----------------------------------------------------------------------------
(* Properties *)

(* C1: every execute_trade call, whatever the gateway answers, sends at most *)
(* two order submissions to the gateway.                                     *)
C1_AtMostTwoSubmissions == Executed => lastCall.sends <= 2

(* C2: an execute_trade call made (with an accepted decision) while the      *)
(* guardrail blocks (symbol, side) returns, when it meets no exception, a    *)
(* result with blocked=true and ok=false, and sends no order.                *)
C2_BlockedCallReturnsBlocked ==
    [][ ( /\ lastCall'.kind = "execute"
          /\ lastCall'.reason # "not_accepted"
          /\ lastCall'.exception = "none"
          /\ Blocking(lastCall'.symbol, lastCall'.side, lastCall'.read_ok) )
        => ( /\ lastCall'.blocked
             /\ ~lastCall'.ok
             /\ lastCall'.sends = 0 ) ]_vars

(* C3: the guardrail check answers allowed exactly when the four conditions  *)
(* hold: managed open positions below max_open, the symbol's open positions  *)
(* below max_per_symbol, the cooldown elapsed since the symbol's last trade, *)
(* and not (block_same_direction and last direction = side).  The counts are *)
(* those of the position list the gateway returned.                          *)
C3_AllowedIffFourHold ==
    Checked => ( lastCall.allowed <=>
                 FourHold(lastCall.symbol, lastCall.side, lastCall.read_ok) )

C3_Witness ==
    /\ Checked
    /\ lastCall.read_ok
    /\ ~lastCall.allowed
    /\ ~GlobalCapReached(TRUE)
    /\ ~SymbolCapReached(lastCall.symbol, TRUE)
    /\ ~CoolingDown(lastCall.symbol)
    /\ SameDirection(lastCall.symbol, lastCall.side)

(* C4: when the global cap and the per-symbol cap are both reached, the      *)
(* guardrail check reports the block reason global_cap, never symbol_cap.    *)
C4_GlobalCapReportedFirst ==
    ( /\ Checked
      /\ GlobalCapReached(lastCall.read_ok)
      /\ SymbolCapReached(lastCall.symbol, lastCall.read_ok) )
    => ( ~lastCall.allowed /\ lastCall.reason = "global_cap" )

C4_Witness ==
    /\ Checked
    /\ lastCall.read_ok
    /\ GlobalCapReached(TRUE)
    /\ SymbolCapReached(lastCall.symbol, TRUE)
    /\ lastCall.reason = "global_cap"

(* C5 as claimed: after execute_trade returned ok=true for a symbol at time  *)
(* t, every guardrail check of that symbol before t + cooldown answers       *)
(* blocked with reason cooldown, and a check after it answers allowed when   *)
(* no cap and no same-direction block applies.                               *)
C5_BlockedWithReasonCooldown ==
    ( Checked /\ lastCall.symbol \in DOMAIN lastOk )
    => IF now < lastOk[lastCall.symbol] + env.cooldown_sec
       THEN ~lastCall.allowed /\ lastCall.reason = "cooldown"
       ELSE ( /\ ~GlobalCapReached(lastCall.read_ok)
              /\ ~SymbolCapReached(lastCall.symbol, lastCall.read_ok)
              /\ ~SameDirection(lastCall.symbol, lastCall.side) )
            => lastCall.allowed

(* C5, amended: after execute_trade returned ok=true for a symbol at time t, *)
(* every guardrail check of that symbol before t + cooldown answers blocked, *)
(* with reason cooldown unless a cap is reached (the caps are checked first  *)
(* and give their own reason); a check at or after t + cooldown answers      *)
(* allowed when no cap and no same-direction block applies.                  *)
C5_BlockedDuringCooldown ==
    ( Checked /\ lastCall.symbol \in DOMAIN lastOk )
    => IF now < lastOk[lastCall.symbol] + env.cooldown_sec
       THEN /\ ~lastCall.allowed
            /\ lastCall.reason =
                 ( IF GlobalCapReached(lastCall.read_ok) THEN "global_cap"
                   ELSE IF SymbolCapReached(lastCall.symbol, lastCall.read_ok)
                   THEN "symbol_cap" ELSE "cooldown" )
       ELSE ( /\ ~GlobalCapReached(lastCall.read_ok)
              /\ ~SymbolCapReached(lastCall.symbol, lastCall.read_ok)
              /\ ~SameDirection(lastCall.symbol, lastCall.side) )
            => lastCall.allowed

C5_Witness ==
    /\ Checked
    /\ lastCall.symbol \in DOMAIN lastOk
    /\ now < lastOk[lastCall.symbol] + env.cooldown_sec
    /\ lastCall.read_ok
    /\ lastCall.reason = "cooldown"

(* C6: after every operation of the trust store (win update, loss update,    *)
(* read with decay), the stored trust of every symbol is within [0, 1].      *)
C6_TrustInUnitInterval ==
    \A s \in DOMAIN _TRUST :
        /\ 0 <= stored_trust(module, _TRUST, s)
        /\ stored_trust(module, _TRUST, s) <= One

C6_Witness ==
    /\ module = "fx"
    /\ trustOps = MaxTrustOps
    /\ elapses > 0
    /\ \E s \in DOMAIN _TRUST : stored_trust(module, _TRUST, s) = One

(* C7: an exception raised while execute_trade interacts with the gateway    *)
(* does not leave execute_trade: exactly one loss update is applied to the   *)
(* symbol's trust and a result with ok=false is returned.                    *)
C7_ExceptionsAreContained ==
    ( Executed /\ lastCall.exception # "none" )
    => ( /\ lastCall.exception = "caught"
         /\ ~lastCall.ok
         /\ lastCall.trust_updates = << "loss" >> )

(* C8: when the gateway accepts the first submission of a call, the call     *)
(* applies a win update, sets last_trade_time[symbol] to now and             *)
(* last_direction[symbol] to side and returns ok=true with attempts=1; when  *)
(* the first is rejected and the second accepted, the same with attempts=2.  *)
C8_AcceptedSubmissionIsCounted ==
    ( Executed /\ lastCall.accepted \in {1, 2} )
    => ( /\ lastCall.ok
         /\ lastCall.attempts = lastCall.accepted
         /\ lastCall.trust_updates = << "win" >>
         /\ Get(_last_trade_time, lastCall.symbol, 0) = now
         /\ Get(_last_direction, lastCall.symbol, "") = lastCall.side )

(* C9: when the first two submissions of a call are both refused (non-DONE   *)
(* retcode or no response), the call applies a loss update and returns       *)
(* ok=false with reason execution_failed.                                    *)
C9_TwoRefusalsFail ==
    ( Executed /\ lastCall.refused >= 2 /\ lastCall.exception = "none" )
    => ( /\ ~lastCall.ok
         /\ lastCall.reason = "execution_failed"
         /\ lastCall.trust_updates = << "loss" >> )

(* C10: a guardrail check, allowed or blocked, leaves last_trade_time and    *)
(* last_direction of every symbol as they were.                              *)
C10_CheckLeavesGuardrailState ==
    [][ lastCall'.kind = "check"
        => ( /\ _last_trade_time' = _last_trade_time
             /\ _last_direction' = _last_direction ) ]_vars

C10_Witness ==
    /\ Checked
    /\ ~lastCall.allowed
    /\ _last_direction # EmptyDict
    /\ lastCall.symbol \notin DOMAIN _last_trade_time

(* C11: an execute_trade call that ends blocked, failed on both attempts or  *)
(* with a caught exception (any call that does not return ok=true) leaves    *)
(* last_trade_time and last_direction exactly as they were before the call.  *)
C11_FailedCallLeavesGuardrailState ==
    [][ ( lastCall'.kind = "execute" /\ ~lastCall'.ok )
        => ( /\ _last_trade_time' = _last_trade_time
             /\ _last_direction' = _last_direction ) ]_vars

C11_Witness ==
    /\ Executed
    /\ module \in {"fx", "xau"}
    /\ ~lastCall.ok
    /\ lastCall.reason = "execution_failed"
    /\ lastCall.sends >= 2
    /\ lastCall.trust_updates = << "loss" >>

(* C12: for every confidence in [0,1] and every venue triple, the volume     *)
(* finally submitted is within [min_lots, max_lots] and is an integer        *)
(* multiple of volume_step.                                                  *)
C12_VolumeWithinConfiguredLots ==
    ( calc.kind = "lots" /\ calc.done )
    => ( /\ min_lots(module) <= calc.lots
         /\ calc.lots <= max_lots(module)
         /\ calc.lots % calc.venue.volume_step = 0 )

(* C13: venue normalisation returns a volume within [volume_min, volume_max] *)
(* for every input volume and every venue triple, also when volume_min or    *)
(* volume_max is not a multiple of volume_step.                              *)
C13_VolumeWithinVenueRange ==
    ( calc.kind = "lots" /\ calc.done /\ module \in {"fx", "idx"} )
    => ( /\ calc.venue.volume_min <= calc.lots
         /\ calc.lots <= calc.venue.volume_max )

(* C14: every Decision carries an accepted flag, and the flag is true exactly
   when the side is not NONE and the adjusted confidence is at least the
   minimum confidence threshold. *)
C14_AcceptedIffSideAndConfidence ==
    Decided
    => ( /\ calc.decision.has_accepted
         /\ calc.decision.accepted
              <=> ( /\ calc.decision.side # ""
                    /\ calc.decision.adj_conf >= AGENT_MIN_CONFIDENCE ) )

(* C15: the accepted gate agrees with the reported confidence: a Decision with a
   side is accepted exactly when the confidence it carries, rounded to the
   reporting precision, is at least the minimum confidence threshold. *)
C15_GateAgreesWithReportedConfidence ==
    ( Decided /\ calc.decision.has_accepted /\ calc.decision.side # "" )
    => ( calc.decision.accepted
         <=> calc.decision.confidence >= AGENT_MIN_CONFIDENCE )

(* C16: for every raw confidence in [0,1], every trust in [0,1] and the
   configured blend weight, the blender's adjusted confidence is in [0,1]. *)
C16_AdjustedConfidenceInUnitInterval ==
    Blended => ( 0 <= calc.adj_conf /\ calc.adj_conf <= Micro )

C16_Witness ==
    /\ Blended
    /\ calc.engine = "fx_v4"
    /\ calc.raw_conf = Micro
    /\ calc.trust = One
    /\ calc.adj_conf = Micro

(* C17: starting from trust 0.5, three consecutive win updates of the trust
   store yield 0.55, then 0.595, then 0.6355. *)
C17_ThreeWinsFromNeutral ==
    ( calc.kind = "store" /\ calc.engine \in {"fx_v46", "fx_v4"}
      /\ calc.ops = << "win", "win", "win" >> )
    => calc.trusts = << 550000, 595000, 635500 >>

(* C18: the first read of the trust store for a symbol it has never seen
   returns exactly the neutral value 0.5, at whatever time the read happens. *)
C18_FirstReadIsNeutral ==
    ( StoreCalled("read") /\ calc.first ) => calc.value = Neutral * One

(* C19: the decay applied on a trust store read moves trust toward 0.5 and never
   past it: the distance to 0.5 does not grow and the side of 0.5 is kept. *)
C19_DecayTowardNeutral ==
    ( ( StoreCalled("read") \/ StoreCalled("decay") ) /\ calc.engine # "idx_v46" )
    => ( /\ Abs(calc.value - Neutral * One) <= Abs(calc.before - Neutral * One)
         /\ calc.before >= Neutral * One => calc.value >= Neutral * One
         /\ calc.before <= Neutral * One => calc.value <= Neutral * One )

(* C20: whenever ema_fast = ema_slow the decision engine returns side NONE and
   accepted false, for every RSI, ATR% and trust; the reasons name the flat
   EMA: mixed_or_neutral from fx_decider_v46, ema_flat from fx_decider. *)
C20_FlatEmaIsRejected ==
    ( Decided /\ calc.engine \in {"fx_v46", "fx_v4"} /\ calc.feats.ema_gap = 0 )
    => ( /\ calc.decision.side = ""
         /\ ~calc.decision.accepted
         /\ calc.engine = "fx_v46" => "mixed_or_neutral" \in calc.decision.why
         /\ calc.engine = "fx_v4" => "ema_flat" \in calc.decision.why )

C20_Witness ==
    /\ Decided
    /\ calc.engine = "fx_v46"
    /\ calc.feats.ema_gap = 0
    /\ calc.feats.rsi >= FX_RSI_LONG_TH
    /\ calc.trust = One
    /\ calc.decision.side = ""
    /\ "mixed_or_neutral" \in calc.decision.why

(* C20 as stated: the flat EMA is always reported as mixed_or_neutral. *)
C20_FlatEmaIsNeutralReject ==
    ( Decided /\ calc.engine \in {"fx_v46", "fx_v4"} /\ calc.feats.ema_gap = 0 )
    => ( /\ calc.decision.side = ""
         /\ ~calc.decision.accepted
         /\ "mixed_or_neutral" \in calc.decision.why )

(* C21: side is LONG only when ema_fast > ema_slow and RSI is at or above the
   long threshold, SHORT only when ema_fast < ema_slow and RSI is at or below
   the short threshold, and NONE in every other case; the reason given for
   NONE is mixed_or_neutral in the v46 deciders (extreme_volatility when the
   XAU volatility filter fires) and below_conf_threshold in fx_decider. *)
C21_SideFollowsRegimeAndRsi ==
    Decided
    => ( /\ calc.decision.side = "LONG" => BullConfirmed
         /\ calc.decision.side = "SHORT" => BearConfirmed
         /\ ( ~BullConfirmed /\ ~BearConfirmed )
            => ( /\ calc.decision.side = ""
                 /\ ( IF calc.engine = "fx_v4" THEN "below_conf_threshold"
                      ELSE IF ExtremeVolatility THEN "extreme_volatility"
                      ELSE "mixed_or_neutral" ) \in calc.decision.why ) )

C21_Witness ==
    /\ Decided
    /\ calc.engine = "xau_v46"
    /\ calc.decision.side = "SHORT"
    /\ calc.feats.ema_gap < 0
    /\ calc.feats.rsi = XAU_RSI_SHORT_TH

(* C21 as stated: every Decision without a side is tagged mixed_or_neutral. *)
C21_NoSideIsMixedOrNeutral ==
    ( Decided /\ ~BullConfirmed /\ ~BearConfirmed )
    => ( /\ calc.decision.side = ""
         /\ "mixed_or_neutral" \in calc.decision.why )

(* C26: the trust store's update of a call is applied only after the guardrail
   check has passed and the order outcome is known: a call that applied a
   trust update was not stopped by the guardrail and ended with the order
   accepted, with execution_failed, or with a caught exception. *)
C26_TrustUpdateAfterGuardrailAndOutcome ==
    ( Executed /\ lastCall.trust_updates # << >> )
    => ( /\ ~lastCall.blocked
         /\ lastCall.reason # "guardrail_blocked"
         /\ ( lastCall.ok \/ lastCall.reason = "execution_failed" \/ lastCall.error ) )

(* C22: In one cycle the batch loop takes the configured symbols one by one
   in the configured order, each exactly once, and then ends; an exception
   raised while a symbol is processed is counted in errors and the symbols
   after it are still processed. *)
C22_EverySymbolOnceInOrder ==
    /\ [] ( InCycle
            => ( /\ Len(calc.log) <= Len(CycleSymbols)
                 /\ \A k \in 1..Len(calc.log) :
                      /\ calc.log[k].symbol = CycleSymbols[k]
                      /\ calc.log[k].exception => calc.log[k].tally.errors >= 1
                 /\ calc.ended => Len(calc.log) = Len(CycleSymbols) ) )
    /\ <> ( CycleEnded /\ Len(calc.log) = Len(CycleSymbols) )

C22_Witness ==
    /\ CycleEnded
    /\ Len(calc.log) = 2
    /\ calc.log[1].exception
    /\ calc.summary.errors = 1
    /\ calc.log[2].symbol = "USDJPY"
    /\ calc.log[2].sends > 0

(* C23: The batch loop calls the Order Executor at most once for a symbol
   in a cycle; only the executor itself resubmits. *)
C23_AtMostOneExecutePerSymbol ==
    \A e \in Entries : e.executes <= 1

(* C24: A call of the executor that the guardrail blocks returns blocked=true
   with a reason, and the batch loop counts that result in its blocked tally
   and not in errors. *)
C24_GuardrailBlockCountedAsBlocked ==
    [][ ( /\ lastCall'.kind = "execute"
          /\ lastCall'.reason # "not_accepted"
          /\ lastCall'.exception = "none"
          /\ Blocking(lastCall'.symbol, lastCall'.side, lastCall'.read_ok) )
        => ( /\ lastCall'.blocked
             /\ lastCall'.reason # ""
             /\ count_result(module, lastCall').blocked = 1
             /\ count_result(module, lastCall').errors = 0 ) ]_vars

(* C25: A symbol whose market data is unavailable is skipped: it is counted
   as skipped and as nothing else, no order is sent, no win/loss trust update
   is applied and the cooldown and direction stamps stay as they were. *)
C25_UnavailableDataIsSkipped ==
    \A e \in Entries :
        e.data \in {"none", "too_few_bars"}
        => ( /\ e.tally = Counted("skipped")
             /\ e.executes = 0
             /\ e.sends = 0
             /\ e.updates = << >>
             /\ ~e.state_changed )

(* C27: No record of the trust store is changed by two actors without
   serialization: once the executor and the trade monitor have finished
   their updates, the store holds the effect of every one of them. *)
C27_EveryUpdateIsReflected ==
    Quiescent => load_trust(calc.file) = apply_all(load_trust(calc.start), calc.saved)

(* C28: The decision is immutable once the decision engine returned it: the
   guardrail check and the executor leave every field as it was. *)
C28_DecisionUnchangedByExecutor ==
    ExecutorReturned => calc.decision = calc.decision0

(* C29: The decision engine only reads the feature snapshot: after it
   returned, the snapshot's list of reason tags is what it was before. *)
C29_FeaturesUnchangedByDecider ==
    DecisionReturned => calc.why = calc.why0

(* C30: The stop-loss and take-profit distances from price of the second
   submission of an execute_trade call are each at least those of the first
   submission: the retry never narrows the stops. *)
C30_RetryNeverNarrowsStops ==
    Resubmitted
    => ( /\ SlDistance(calc.stops.second) >= SlDistance(calc.stops.first)
         /\ TpDistance(calc.stops.second) >= TpDistance(calc.stops.first) )

(* C31: What the processing of one symbol does to the trust store and to
   the guardrail state stays with that symbol: the trust value, the
   last_trade_time and the last_direction of every other symbol are after
   the step what they were before it. *)
C31_OtherSymbolsUnchanged ==
    [][ InCycle
        => \A s \in AllSymbols :
             ( \/ s \in DOMAIN _TRUST' /\ (s \notin DOMAIN _TRUST \/ _TRUST'[s] # _TRUST[s])
               \/ Get(_last_trade_time', s, 0) # Get(_last_trade_time, s, 0)
               \/ Get(_last_direction', s, "") # Get(_last_direction, s, "") )
             => ( calc.i <= Len(CycleSymbols) /\ s = CycleSymbols[calc.i] ) ]_vars

C31_Witness ==
    /\ InCycle
    /\ Len(calc.log) = 2
    /\ calc.log[1].updates # << >>
    /\ calc.log[2].updates # << >>
    /\ calc.log[2].state_changed
    /\ "EURUSD" \in DOMAIN _last_direction

(* C32: On an account where only the loop's execute_trade calls open
   positions, the open positions on managed symbols never exceed max_open
   and those on one symbol never exceed max_per_symbol, whatever the
   gateway answers to position reads and orders. *)
C32_CapsNeverExceeded ==
    calc.kind = "caps"
    => ( /\ CountIn(positions, AgentSymbols) <= env.agent_max_open
         /\ \A s \in AgentSymbols : positions[s] <= env.agent_max_per_symbol )

(* C33: An order reaches the gateway for a symbol only when the decision of
   that cycle for the symbol says accepted = true: a LONG or SHORT decision
   whose adjusted confidence is below the threshold sends nothing. *)
C33_OnlyAcceptedDecisionsAreSent ==
    ( calc.kind = "gate" /\ calc.stage = "done" /\ calc.sends > 0 )
    => ( calc.decision.has_accepted /\ calc.decision.accepted )

(* C34: Processing one symbol in one cycle increments exactly one of the
   tallies executed, skipped, blocked and errors by one, so that when the
   cycle ends the four tallies add up to the number of configured symbols. *)
C34_OneTallyPerSymbol ==
    /\ \A e \in Entries : FourTallies(e.tally) = 1
    /\ CycleEnded => FourTallies(calc.summary) = Len(CycleSymbols)

(* C35: The executed tally is incremented for a symbol only when
   execute_trade returned a result with ok = true; a blocked result, a
   failure of both attempts or an exception never counts as executed. *)
C35_ExecutedOnlyWhenOk ==
    \A e \in Entries : e.tally.executed > 0 => HadOkResult(e)

(* C36: Within the processing of one symbol in one cycle the win or loss
   update of its trust is applied at most once. *)
C36_AtMostOneTrustUpdatePerSymbol ==
    \A e \in Entries : Len(e.updates) <= 1

(* C37: When the venue reports a positive minimum stop distance, the stop
   loss and the take profit of the first submission are each at least that
   distance away from the submitted price, for every configured stop
   distance and widening multiplier. *)
C37_FirstStopsRespectMinimum ==
    ( Resubmitted /\ calc.min_points > 0 )
    => ( /\ SlDistance(calc.stops.first) >= calc.min_points * Tenth
         /\ TpDistance(calc.stops.first) >= calc.min_points * Tenth )

(* C39 as stated: for positive SL and TP distances every order of attempt 1
   or 2 has sl < price < tp when LONG and tp < price < sl when SHORT, the
   price being the ask for LONG and the bid for SHORT. *)
C39_StopsAroundPrice ==
    \A o \in Orders : StopsAround(calc.side, o) /\ o.price = QuotedPrice

(* C39 amended: the same for distances that stay more than one point of the
   venue's price precision at the multiplier in force. *)
C39_StopsAroundPriceBeyondAPoint ==
    DistancesClearAPoint
    => \A o \in Orders : StopsAround(calc.side, o) /\ o.price = QuotedPrice

C39_Witness ==
    /\ calc.kind = "order"
    /\ calc.engine = "fx_v46"
    /\ Len(calc.orders) = 2
    /\ DistancesClearAPoint
    /\ calc.point = 1000
    /\ calc.side = "SHORT"
    /\ calc.tick.bid % calc.point # 0
    /\ calc.orders[1].sl # calc.orders[2].sl

(* C38: With block_same_direction set, once a fill of side S is recorded
   for a symbol, every later canOpen(symbol, S) is blocked until a fill of
   the opposite side is recorded for the symbol, however much time has
   passed and whether or not the position has been closed. *)
C38_SameDirectionBlockedUntilOppositeFill ==
    ( Asked /\ env.block_same_direction /\ calc.asked.last_fill = calc.asked.side )
    => ~calc.asked.allowed

====
